---- MODULE Spec2Model ----
(***************************************************************************)
(* State-machine model of the LauraBraids REST API.                        *)
(*                                                                         *)
(* One action is one HTTP request carried through its route: the           *)
(* middlewares of the route, the controller and the data-layer calls the   *)
(* controller makes.  The variable res records what the last request       *)
(* produced: the status of the response that reached the client, how many  *)
(* times the handler tried to send a response, how many mutating store     *)
(* calls it executed, whether it ended by throwing, and the errors array   *)
(* of a validation response.                                               *)
(*                                                                         *)
(* Every subsystem (appointments, orders, validation middleware, users,    *)
(* reviews, categories, styles, products and stylists) has its own         *)
(* next-state relation and its own specification over the shared           *)
(* variables.                                                              *)
(***************************************************************************)
EXTENDS Integers, Sequences, FiniteSets, TLC

VARIABLES
  now,           \* wall clock read by new Date() / NOW(), in abstract slots
  nextId,        \* number of identifiers handed out by uuidv4() so far
  appointments,  \* appointments.controller.ts: let appointments: Appointment[]
  reviews,       \* reviews.controller.ts: let reviews: Review[]
  users,         \* rows of table users
  categories,    \* rows of table categories
  tasks,         \* the requests the event loop is handling, each with its position
  braidIds,      \* history: the ids the braids have had so far
  braids,        \* braids.controller.ts: let braids: Braid[]
  stylists,      \* rows of table stylists
  products,      \* rows of table products
  styles,        \* styles.controller.ts: let styles: Style[]
  orders,        \* rows of table orders
  order_items,   \* rows of table order_items
  mw,            \* the request/response pair a validation middleware works on
  res            \* outcome of the last request

vars == <<now, nextId, appointments, reviews, users, categories,
          orders, order_items, styles, products, stylists, braids, braidIds, tasks, mw, res>>

----------------------------------------------------------------------------
(* Bounds of the model *)

\* number of appointments created in one behaviour
MaxAppointmentsCreated == 1

\* order requests reach the data layer while uuidv4 has handed out fewer
\* identifiers than this
MaxOrderUuids == 2

\* the last instant of the clock
MaxNow == 4

\* user requests that call uuidv4 are served while it has handed out fewer
\* identifiers than this
MaxUsersCreated == 2

\* number of reviews created in one behaviour
MaxReviewsCreated == 2

\* category requests that call uuidv4 are served while it has handed out
\* fewer identifiers than this
MaxCategoriesCreated == 2

\* style requests that call uuidv4 are served while it has handed out
\* fewer identifiers than this
MaxStylesCreated == 1

----------------------------------------------------------------------------
(* Values shared by the handlers *)

\* the value of a property that is not present in a JSON body
undefined == "undefined"
\* the time value of an Invalid Date
NaN == -1

\* JavaScript falsiness of the string-valued body fields the handlers test
\* with !x and x || y
Falsy(v) == v = undefined \/ v = ""

\* res of a handler that answered once
Reply(op, status, writes) ==
  [op |-> op, status |-> status, sends |-> 1, writes |-> writes, threw |-> FALSE,
   errors |-> <<>>]

\* the uuid the next uuidv4() call returns
uuidv4 == nextId + 1

----------------------------------------------------------------------------
(* Appointments: src/src/controllers/appointments.controller.ts *)

AppointmentStatus == {"SCHEDULED", "COMPLETED", "CANCELLED", "NO_SHOW"}

\* seed rows of the in-memory store
initialAppointments ==
  << [id |-> 101, user_id |-> "user-1", stylist_id |-> "stylist-1",
      style_id |-> "style-1", appointment_date |-> 1, status |-> "SCHEDULED",
      notes |-> "seed"],
     [id |-> 102, user_id |-> "user-2", stylist_id |-> "stylist-2",
      style_id |-> "style-2", appointment_date |-> 0, status |-> "COMPLETED",
      notes |-> "seed"],
     [id |-> 103, user_id |-> "user-3", stylist_id |-> "stylist-1",
      style_id |-> "style-3", appointment_date |-> 2, status |-> "CANCELLED",
      notes |-> "seed"] >>

\* new Date(x).getTime(): the instant a date string denotes; two texts with
\* different UTC offsets can denote one instant; NaN for an unparseable text
NewDate(x) ==
  CASE x = "2024-07-15T10:00:00" -> 1
    [] x = "slot4T10:00:00Z" -> 4
    [] x = "slot4T11:00:00+01:00" -> 4
    [] x = "slot5T10:00:00Z" -> 5
    [] x = "slot7T10:00:00Z" -> 7
    [] OTHER -> NaN

\* Date.getDay() of an instant: a slot is a day, slot 0 a Sunday
getDay(t) == t % 7

\* Date.getHours() of an instant: the dates of the model are at 10:00
getHours(t) == 10

\* appointments.findIndex(a => a.id === id), 0 standing for -1
FindAppointmentIndex(id) ==
  IF \E i \in 1..Len(appointments) : appointments[i].id = id
  THEN CHOOSE i \in 1..Len(appointments) :
         /\ appointments[i].id = id
         /\ \A j \in 1..(i-1) : appointments[j].id # id
  ELSE 0

\* the availability check with the status test left out
conflictingAppointment_AnyStatus(stylist_id, t) ==
  \E i \in 1..Len(appointments) :
     /\ appointments[i].stylist_id = stylist_id
     /\ appointments[i].appointment_date = t

\* no availability check
conflictingAppointment_Never(stylist_id, t) == FALSE

\* the availability check of createAppointment
conflictingAppointment(stylist_id, t) ==
  \E i \in 1..Len(appointments) :
     /\ appointments[i].stylist_id = stylist_id
     /\ appointments[i].appointment_date = t
     /\ appointments[i].status = "SCHEDULED"

\* the handler createAppointment, which runs from its first statement to
\* its answer without an await or a callback
createAppointmentHandler(body) ==
  LET appointmentDateTime == NewDate(body.appointment_date) IN
  /\ UNCHANGED <<now, reviews, users, categories, orders, order_items,
                 styles, products, stylists, braids, braidIds, mw>>
  /\ IF \/ Falsy(body.user_id) \/ Falsy(body.stylist_id)
        \/ Falsy(body.style_id) \/ Falsy(body.appointment_date)
     THEN /\ res' = Reply("createAppointment", 400, 0)
          /\ UNCHANGED <<appointments, nextId>>
     ELSE IF appointmentDateTime = NaN
     THEN /\ res' = Reply("createAppointment", 400, 0)
          /\ UNCHANGED <<appointments, nextId>>
     ELSE IF appointmentDateTime <= now
     THEN /\ res' = Reply("createAppointment", 400, 0)
          /\ UNCHANGED <<appointments, nextId>>
     ELSE IF conflictingAppointment(body.stylist_id, appointmentDateTime)
     THEN /\ res' = Reply("createAppointment", 409, 0)
          /\ UNCHANGED <<appointments, nextId>>
     ELSE /\ appointments' = Append(appointments,
               [id |-> uuidv4, user_id |-> body.user_id,
                stylist_id |-> body.stylist_id, style_id |-> body.style_id,
                appointment_date |-> appointmentDateTime,
                status |-> "SCHEDULED",
                notes |-> IF Falsy(body.notes) THEN "" ELSE body.notes])
          /\ nextId' = nextId + 1
          /\ res' = Reply("createAppointment", 201, 1)

\* POST /api/appointments, one request at a time
createAppointment(body) ==
  /\ nextId < MaxAppointmentsCreated
  /\ UNCHANGED tasks
  /\ createAppointmentHandler(body)

\* the two requests the server is handling at the same time
InFlight == {1, 2}

\* no request has arrived
NoTasks == [r \in InFlight |-> [pc |-> "idle", body |-> <<>>, status |-> 0]]

\* request bodies of POST /api/appointments for the two slots that two
\* requests can both ask for, the second slot written with two UTC offsets
ConcurrentAppointmentBodies ==
  [user_id : {"user-9"},
   stylist_id : {"stylist-1", "stylist-2"},
   style_id : {"style-1"},
   appointment_date : {"slot4T10:00:00Z", "slot4T11:00:00+01:00",
                       "slot5T10:00:00Z"},
   notes : {undefined}]

\* a request POST /api/appointments arrives and its body is parsed; the
\* handler is queued
receiveCreateAppointment(r, body) ==
  /\ tasks[r].pc = "idle"
  /\ tasks' = [tasks EXCEPT ![r] = [pc |-> "received", body |-> body,
                                    status |-> 0]]
  /\ UNCHANGED <<now, nextId, appointments, reviews, users, categories,
                 orders, order_items, styles, products, stylists, braids,
                 braidIds, mw, res>>

\* the event loop runs the handler of request r
runCreateAppointment(r) ==
  /\ tasks[r].pc = "received"
  /\ createAppointmentHandler(tasks[r].body)
  /\ tasks' = [tasks EXCEPT ![r].pc = "answered", ![r].status = res'.status]

\* the appointment updateAppointment stores in place of the current one; as
\* alternative, the notes supplied are added to the notes kept
mergedAppointment_AppendsNotes(currentAppointment, body) ==
  [currentAppointment EXCEPT
     !.appointment_date = IF Falsy(body.appointment_date)
                          THEN currentAppointment.appointment_date
                          ELSE NewDate(body.appointment_date),
     !.status = IF Falsy(body.status) THEN currentAppointment.status
                ELSE body.status,
     !.notes = IF body.notes # undefined
               THEN currentAppointment.notes \o body.notes
               ELSE currentAppointment.notes]

mergedAppointment(currentAppointment, body) ==
  [currentAppointment EXCEPT
     !.appointment_date = IF Falsy(body.appointment_date)
                          THEN currentAppointment.appointment_date
                          ELSE NewDate(body.appointment_date),
     !.status = IF Falsy(body.status) THEN currentAppointment.status
                ELSE body.status,
     !.notes = IF body.notes # undefined THEN body.notes
               ELSE currentAppointment.notes]

\* PUT /api/appointments/:id
updateAppointment(id, body) ==
  LET appointmentIndex == FindAppointmentIndex(id)
      currentAppointment == appointments[appointmentIndex]
      appointmentDateTime == NewDate(body.appointment_date)
  IN
  /\ UNCHANGED <<now, nextId, reviews, users, categories, orders,
                 order_items, styles, products, stylists, braids, braidIds,
                 tasks, mw>>
  /\ IF appointmentIndex = 0
     THEN /\ res' = Reply("updateAppointment", 404, 0)
          /\ UNCHANGED appointments
     ELSE IF ~Falsy(body.appointment_date) /\ appointmentDateTime = NaN
     THEN /\ res' = Reply("updateAppointment", 400, 0)
          /\ UNCHANGED appointments
     ELSE IF /\ ~Falsy(body.appointment_date)
             /\ appointmentDateTime <= now
             /\ body.status # "COMPLETED"
     THEN /\ res' = Reply("updateAppointment", 400, 0)
          /\ UNCHANGED appointments
     ELSE IF ~Falsy(body.status) /\ body.status \notin AppointmentStatus
     THEN /\ res' = Reply("updateAppointment", 400, 0)
          /\ UNCHANGED appointments
     ELSE /\ appointments' =
               [appointments EXCEPT ![appointmentIndex] =
                  mergedAppointment(currentAppointment, body)]
          /\ res' = Reply("updateAppointment", 200, 1)

\* appointments.splice(i, 1)
Splice(s, i) == [k \in 1..(Len(s) - 1) |-> IF k < i THEN s[k] ELSE s[k + 1]]

\* DELETE /api/appointments/:id
deleteAppointment(id) ==
  LET appointmentIndex == FindAppointmentIndex(id) IN
  /\ UNCHANGED <<now, nextId, reviews, users, categories, orders,
                 order_items, styles, products, stylists, braids, braidIds,
                 tasks, mw>>
  /\ IF appointmentIndex = 0
     THEN /\ res' = Reply("deleteAppointment", 404, 0)
          /\ UNCHANGED appointments
     ELSE /\ appointments' = Splice(appointments, appointmentIndex)
          /\ res' = Reply("deleteAppointment", 204, 1)

\* request bodies of POST /api/appointments the model sends
CreateAppointmentBodies ==
  [user_id : {"user-9"},
   stylist_id : {"stylist-1", "stylist-2"},
   style_id : {"style-1"},
   appointment_date : {undefined, "not a date", "2024-07-15T10:00:00",
                       "slot4T10:00:00Z", "slot4T11:00:00+01:00",
                       "slot5T10:00:00Z"},
   notes : {undefined}]

\* request bodies of PUT /api/appointments/:id the model sends
UpdateAppointmentBodies ==
  [appointment_date : {undefined, "not a date", "slot4T10:00:00Z"},
   status : {undefined, "SCHEDULED", "COMPLETED", "BOGUS"},
   notes : {undefined}]

\* request bodies of POST /api/appointments with dates on a Thursday and on
\* a Sunday
CreateAppointmentBodiesByDay ==
  [user_id : {"user-9"},
   stylist_id : {"stylist-1", "stylist-2"},
   style_id : {"style-1"},
   appointment_date : {"2024-07-15T10:00:00", "slot4T10:00:00Z",
                       "slot7T10:00:00Z"},
   notes : {undefined}]

\* request bodies of PUT /api/appointments/:id with such dates
UpdateAppointmentBodiesByDay ==
  [appointment_date : {undefined, "slot5T10:00:00Z", "slot7T10:00:00Z"},
   status : {undefined, "CANCELLED"},
   notes : {undefined}]

\* request bodies of PUT /api/appointments/:id with notes
UpdateAppointmentBodiesWithNotes ==
  [appointment_date : {undefined, "slot4T10:00:00Z"},
   status : {undefined, "NO_SHOW"},
   notes : {undefined, "Llega tarde"}]

\* the ids a request can name: those of the stored appointments and one
\* that resolves to nothing
AppointmentIds == {appointments[i].id : i \in 1..Len(appointments)} \cup {999}

NextAppt ==
  \/ \E body \in CreateAppointmentBodies : createAppointment(body)
  \/ \E id \in AppointmentIds, body \in UpdateAppointmentBodies :
        updateAppointment(id, body)
  \/ \E id \in AppointmentIds : deleteAppointment(id)

----------------------------------------------------------------------------
(* JavaScript Numbers: IEEE-754 binary64, as far as the order amounts use  *)
(* them (positive, finite, normal values and zero), with the arithmetic on *)
(* natural numbers of any size that the rounding needs.                    *)

\* 2^k
RECURSIVE Pow2(_)
Pow2(k) == IF k = 0 THEN 1 ELSE 2 * Pow2(k - 1)

\* a natural number is the sequence of its digits in base Radix, most
\* significant first
Radix == Pow2(14)

\* k zero digits
Zeros(k) == [i \in 1..k |-> 0]

\* x without its leading zero digits
StripLeadingZeros(x) ==
  IF \A i \in 1..Len(x) : x[i] = 0 THEN <<>>
  ELSE SubSeq(x, CHOOSE i \in 1..Len(x) :
                    x[i] # 0 /\ \A j \in 1..(i - 1) : x[j] = 0,
              Len(x))

\* x with leading zeros, n digits long
PadTo(x, n) == Zeros(n - Len(x)) \o x

\* the digits of a natural number below Radix^3
DigitsOf(n) ==
  StripLeadingZeros(<<n \div (Radix * Radix), (n \div Radix) % Radix, n % Radix>>)

\* the natural number with the digits x
RECURSIVE NatOf(_)
NatOf(x) ==
  IF x = <<>> THEN 0 ELSE Radix * NatOf(SubSeq(x, 1, Len(x) - 1)) + x[Len(x)]

\* the number of binary digits of the digit t
BitLen(t) == CHOOSE k \in 1..14 : Pow2(k - 1) <= t /\ t < Pow2(k)

\* the carry out of digit j of a + b
RECURSIVE AddCarry(_, _, _)
AddCarry(a, b, j) ==
  IF j > Len(a) THEN 0 ELSE (a[j] + b[j] + AddCarry(a, b, j + 1)) \div Radix

\* a + b
Add(a, b) ==
  LET n == 1 + (IF Len(a) > Len(b) THEN Len(a) ELSE Len(b))
      pa == PadTo(a, n)
      pb == PadTo(b, n)
  IN StripLeadingZeros(
       [j \in 1..n |-> (pa[j] + pb[j] + AddCarry(pa, pb, j + 1)) % Radix])

\* the carry out of digit j of a * k
RECURSIVE MulCarry(_, _, _)
MulCarry(a, k, j) ==
  IF j > Len(a) THEN 0 ELSE (a[j] * k + MulCarry(a, k, j + 1)) \div Radix

\* a * k for a natural number k below Radix
MulSmall(a, k) ==
  LET pa == PadTo(a, Len(a) + 1)
  IN StripLeadingZeros(
       [j \in 1..Len(pa) |-> (pa[j] * k + MulCarry(pa, k, j + 1)) % Radix])

\* a * b
RECURSIVE Mul(_, _)
Mul(a, b) ==
  IF b = <<>> THEN <<>>
  ELSE Add(Mul(a, SubSeq(b, 1, Len(b) - 1)) \o <<0>>, MulSmall(a, b[Len(b)]))

\* the remainder of digits 1..j of a by d
RECURSIVE DivRem(_, _, _)
DivRem(a, d, j) ==
  IF j = 0 THEN 0 ELSE (DivRem(a, d, j - 1) * Radix + a[j]) % d

\* quotient and remainder of a by a natural number d below Radix
DivSmall(a, d) ==
  [q |-> StripLeadingZeros(
           [j \in 1..Len(a) |-> (DivRem(a, d, j - 1) * Radix + a[j]) \div d]),
   r |-> DivRem(a, d, Len(a))]

\* a > b for digit sequences of one length
Greater(a, b) ==
  \E i \in 1..Len(a) : a[i] > b[i] /\ \A j \in 1..(i - 1) : a[j] = b[j]

\* A Number is a significand m of 53 binary digits, held in four digits of
\* base Radix, and the exponent e of its last binary digit: m * 2^e.
Zero == [m |-> <<0, 0, 0, 0>>, e |-> 0]

\* digits of which the fifth and the later ones round the first four up:
\* they are above half a unit of the fourth, or half a unit and the fourth
\* is odd; inexact says that the exact value lies above the digits by less
\* than a unit of the last
RoundsUp(y, inexact) ==
  /\ y[5] >= Pow2(13)
  /\ \/ inexact
     \/ y[5] % Pow2(13) # 0
     \/ \E i \in 6..Len(y) : y[i] # 0
     \/ y[4] % 2 = 1

\* the Number r * 2^e of a rounded significand r, which is 2^53 when the
\* rounding carried out of the 53 binary digits
Carried(r, e) ==
  IF r[1] = Pow2(11)
  THEN [m |-> <<Pow2(10), 0, 0, 0>>, e |-> e + 1]
  ELSE [m |-> r, e |-> e]

\* the Number nearest to y * 2^e for digits y whose first has 11 binary
\* digits
RoundDigits(y, e, inexact) ==
  IF Len(y) <= 4
  THEN [m |-> y \o Zeros(4 - Len(y)), e |-> e - 14 * (4 - Len(y))]
  ELSE Carried(IF RoundsUp(y, inexact)
               THEN Add(SubSeq(y, 1, 4), <<1>>) ELSE SubSeq(y, 1, 4),
               e + 14 * (Len(y) - 4))

\* the binary places to shift a number left for its first digit, of bl
\* binary digits, to have 11
ShiftFor(bl) == IF bl <= 11 THEN 11 - bl ELSE 25 - bl

\* the Number nearest to s * 2^e for digits s, shifted left by sh first
Shifted(s, sh, e, inexact) == RoundDigits(MulSmall(s, Pow2(sh)), e - sh, inexact)

\* the Number nearest to x * 2^e, ties to even; inexact says that the exact
\* value lies above x * 2^e by less than 2^e
RoundNearestEven(x, e, inexact) ==
  IF \A i \in 1..Len(x) : x[i] = 0 THEN Zero
  ELSE Shifted(StripLeadingZeros(x),
               ShiftFor(BitLen(StripLeadingZeros(x)[1])), e, inexact)

\* the Number of an integer literal
NumberOfInt(n) == RoundNearestEven(DigitsOf(n), 0, FALSE)

\* JSON.parse of a number literal with up to three decimals, the literal
\* given in thousandths: the Number nearest to mills / 1000
NumberOfJSON(mills) ==
  LET d == DivSmall(DigitsOf(mills) \o Zeros(5), 1000)
  IN RoundNearestEven(d.q, 0 - 70, d.r # 0)

\* a * b
Times(a, b) ==
  IF a = Zero \/ b = Zero THEN Zero
  ELSE RoundNearestEven(Mul(a.m, b.m), a.e + b.e, FALSE)

\* a + b
Plus(a, b) ==
  IF a = Zero THEN b
  ELSE IF b = Zero THEN a
  ELSE LET e == IF a.e < b.e THEN a.e ELSE b.e
           scaled(x) == MulSmall(x.m, Pow2((x.e - e) % 14))
                           \o Zeros((x.e - e) \div 14)
       IN RoundNearestEven(Add(scaled(a), scaled(b)), e, FALSE)

\* a > b
GreaterThan(a, b) ==
  IF a = Zero THEN FALSE
  ELSE IF b = Zero THEN TRUE
  ELSE a.e > b.e \/ (a.e = b.e /\ Greater(a.m, b.m))

\* p, a number of hundredths with w digits after the point, rounded half up
\* as the shortest decimal text that denotes the Number a is: that text lies
\* on the same side of a half hundredth as a itself unless the half
\* hundredth is the text of a
HalfUp(p, w, a) ==
  IF \/ p[Len(p) - w + 1] >= Pow2(13)
     \/ NumberOfJSON(10 * NatOf(SubSeq(p, 1, Len(p) - w)) + 5) = a
  THEN NatOf(SubSeq(p, 1, Len(p) - w)) + 1
  ELSE NatOf(SubSeq(p, 1, Len(p) - w))

\* x with leading zeros, at least n digits long
AtLeast(x, n) == PadTo(x, IF Len(x) > n THEN Len(x) ELSE n)

\* the value a DECIMAL(p,2) column keeps of the Number a, a fraction or a
\* number below 2^52, in hundredths
DECIMAL_2(a) ==
  IF a = Zero THEN 0
  ELSE HalfUp(AtLeast(MulSmall(MulSmall(a.m, 100), Pow2((14 - ((0 - a.e) % 14)) % 14)),
                      (13 - a.e) \div 14 + 1),
              (13 - a.e) \div 14, a)

----------------------------------------------------------------------------
(* Authentication: src/src/middleware/auth.middleware.ts *)

\* an id text that is not a UUID
NotAUuid == 0

\* the Authorization headers of the requests: none, a token jwt.verify
\* rejects, and the tokens signed for the administrator and two customers
Callers ==
  { [token |-> "missing", userId |-> NotAUuid, role |-> "none"],
    [token |-> "malformed", userId |-> NotAUuid, role |-> "none"],
    [token |-> "valid", userId |-> 401, role |-> "ADMIN"],
    [token |-> "valid", userId |-> 402, role |-> "CUSTOMER"],
    [token |-> "valid", userId |-> 403, role |-> "CUSTOMER"] }

\* the callers with the administrator's token
Administrators == {caller \in Callers : caller.role = "ADMIN"}

\* the status authenticateToken answers with, 0 when it calls next()
authenticateToken(caller) ==
  IF caller.token = "missing" THEN 401
  ELSE IF caller.token = "malformed" THEN 403
  ELSE 0

\* requireAuth is an alias of authenticateToken
requireAuth(caller) == authenticateToken(caller)

----------------------------------------------------------------------------
(* Order schemas: src/src/schemas/orders.schema.ts.  A schema is the       *)
(* sequence of issues parse() reports, in the shape formatZodError gives   *)
(* them; it accepts when the sequence is empty.                            *)

issue(field, message) == <<[field |-> field, message |-> message]>>

uuidSchema(field, id) ==
  IF id = NotAUuid THEN issue(field, "ID debe ser un UUID válido") ELSE <<>>

orderStatusSchema ==
  {"PENDING", "CONFIRMED", "PROCESSING", "SHIPPED", "DELIVERED", "CANCELLED"}

paymentStatusSchema == {"PENDING", "PAID", "FAILED", "REFUNDED"}

\* addr.length and addr.trim() of the address texts the requests carry
AddressTexts ==
  [text |-> <<"short", "12 Main Street, Springfield ">>,
   length |-> <<5, 28>>,
   trim |-> <<"short", "12 Main Street, Springfield">>]

AddressIndex(addr) == CHOOSE i \in 1..Len(AddressTexts.text) : AddressTexts.text[i] = addr

addressSchema(field, addr) ==
  IF addr = undefined THEN <<>>
  ELSE IF AddressTexts.length[AddressIndex(addr)] < 10
  THEN issue(field, "La dirección debe tener al menos 10 caracteres")
  ELSE IF AddressTexts.length[AddressIndex(addr)] > 500
  THEN issue(field, "La dirección no puede exceder 500 caracteres")
  ELSE <<>>

\* the value addressSchema hands on: the trimmed text
addressTransform(addr) ==
  IF addr = undefined THEN undefined ELSE AddressTexts.trim[AddressIndex(addr)]

\* prices are JSON number literals written in thousandths
priceSchema(field, mills) ==
  (IF mills <= 0 THEN issue(field, "El precio debe ser positivo") ELSE <<>>)
  \o (IF mills \div 10 > 999999999
      THEN issue(field, "El precio no puede exceder $9,999,999.99") ELSE <<>>)
  \o (IF mills % 10 # 0
      THEN issue(field, "El precio debe tener máximo 2 decimales") ELSE <<>>)

quantitySchema(field, quantity) ==
  (IF quantity <= 0 THEN issue(field, "La cantidad debe ser positiva") ELSE <<>>)
  \o (IF quantity > 999
      THEN issue(field, "La cantidad no puede exceder 999") ELSE <<>>)

orderItemSchema(field, item) ==
  uuidSchema(field \o ".product_id", item.product_id)
  \o quantitySchema(field \o ".quantity", item.quantity)
  \o priceSchema(field \o ".unit_price", item.unit_price)

\* the issues of items[i..]
RECURSIVE itemsIssues(_, _)
itemsIssues(items, i) ==
  IF i > Len(items) THEN <<>>
  ELSE orderItemSchema("items." \o ToString(i - 1), items[i])
       \o itemsIssues(items, i + 1)

\* productIds.length === new Set(productIds).size
uniqueProductIds(items) ==
  \A i, j \in 1..Len(items) : i # j => items[i].product_id # items[j].product_id

\* createOrderSchema before its refinement
createOrderObject(body) ==
  uuidSchema("customer_id", body.customer_id)
  \o (IF Len(body.items) < 1
      THEN issue("items", "El pedido debe contener al menos un item") ELSE <<>>)
  \o (IF Len(body.items) > 50
      THEN issue("items", "El pedido no puede tener más de 50 items") ELSE <<>>)
  \o itemsIssues(body.items, 1)
  \o addressSchema("shipping_address", body.shipping_address)

\* createOrderSchema with the refinement on duplicate products left out
createOrderSchema_NoRefine(body) ==
  createOrderObject(body)

\* createOrderSchema: the object checks, then the refinement
createOrderSchema(body) ==
  createOrderObject(body)
  \o (IF ~uniqueProductIds(body.items)
      THEN issue("items", "No puede haber productos duplicados en el pedido")
      ELSE <<>>)

\* the body a handler behind validateBody(createOrderSchema) reads: the
\* keys of the schema, any other key of the body stripped
createOrderParsed(body) ==
  [customer_id |-> body.customer_id, items |-> body.items,
   shipping_address |-> addressTransform(body.shipping_address),
   billing_address |-> body.billing_address,
   payment_method |-> body.payment_method]

\* updateOrderSchema before its refinement
updateOrderObject(body) ==
  (IF body.status # undefined /\ body.status \notin orderStatusSchema
   THEN issue("status", "Invalid enum value") ELSE <<>>)
  \o addressSchema("shipping_address", body.shipping_address)
  \o (IF body.payment_status # undefined
         /\ body.payment_status \notin paymentStatusSchema
      THEN issue("payment_status", "Invalid enum value") ELSE <<>>)

\* updateOrderSchema: the object checks, then Object.keys(data).length > 0
updateOrderSchema(body) ==
  updateOrderObject(body)
  \o (IF \A k \in {"status", "shipping_address", "billing_address",
                   "payment_method", "payment_status"} : body[k] = undefined
      THEN issue("", "Debe proporcionar al menos un campo para actualizar")
      ELSE <<>>)

\* the body a handler behind validateBody(updateOrderSchema) reads: the
\* keys of the schema, any other key of the body stripped
updateOrderParsed(body) ==
  [status |-> body.status,
   shipping_address |-> addressTransform(body.shipping_address),
   billing_address |-> body.billing_address,
   payment_method |-> body.payment_method,
   payment_status |-> body.payment_status]

orderParamsSchema(id) == uuidSchema("id", id)

\* the 400 answer validate() gives for a ZodError
ValidationReply(op, errors) ==
  [op |-> op, status |-> 400, sends |-> 1, writes |-> 0, threw |-> FALSE,
   errors |-> errors]

----------------------------------------------------------------------------
(* Orders: data layer src/data/orders.database.ts, controller              *)
(* src/src/controllers/orders.controller.ts, routes orders.routes.ts       *)

\* SQL NULL
null == "null"

\* ids of the rows of table products
ProductIds == {501, 502}

\* the items arrays of the request bodies; unit_price is the JSON literal in
\* thousandths
ItemLists ==
  { <<>>,
    << [product_id |-> 501, quantity |-> 2, unit_price |-> 25990],
       [product_id |-> 502, quantity |-> 1, unit_price |-> 15500] >>,
    << [product_id |-> 501, quantity |-> 1, unit_price |-> 12250],
       [product_id |-> 502, quantity |-> 1, unit_price |-> 15500] >>,
    << [product_id |-> 501, quantity |-> 2, unit_price |-> 25000] >>,
    << [product_id |-> 501, quantity |-> 1, unit_price |-> 20],
       [product_id |-> 502, quantity |-> 3, unit_price |-> 16660] >>,
    << [product_id |-> 501, quantity |-> 1, unit_price |-> 25000],
       [product_id |-> 501, quantity |-> 1, unit_price |-> 25000] >>,
    << [product_id |-> 501, quantity |-> 0, unit_price |-> 25000] >>,
    << [product_id |-> 501, quantity |-> 1, unit_price |-> 10999] >>,
    << [product_id |-> 501, quantity |-> 1, unit_price |-> 15500],
       [product_id |-> 509, quantity |-> 1, unit_price |-> 15500] >> }

\* item.quantity * item.unit_price
itemTotal(item) == Times(NumberOfInt(item.quantity), NumberOfJSON(item.unit_price))

\* items.reduce((sum, item) => sum + item.quantity * item.unit_price, 0),
\* from item i on
RECURSIVE reduceSubtotal(_, _, _)
reduceSubtotal(items, i, sum) ==
  IF i > Len(items) THEN sum
  ELSE reduceSubtotal(items, i + 1, Plus(sum, itemTotal(items[i])))

\* subtotal > 50 ? 0 : 10
shippingAmount(subtotal) ==
  IF GreaterThan(subtotal, NumberOfInt(50)) THEN NumberOfInt(0)
  ELSE NumberOfInt(10)

\* unit_price and total_price of an item as the DECIMAL(8,2) columns of
\* order_items keep them, in hundredths
storedItem(item) ==
  [unit_price |-> DECIMAL_2(NumberOfJSON(item.unit_price)),
   total_price |-> DECIMAL_2(itemTotal(item))]

\* the amounts of an order as the DECIMAL(10,2) columns of orders keep
\* them, in hundredths, the total being subtotal + taxAmount + shipping
storedAmounts(items, subtotal, taxAmount, shipping) ==
  [subtotal |-> DECIMAL_2(subtotal),
   tax_amount |-> DECIMAL_2(taxAmount),
   shipping_amount |-> DECIMAL_2(shipping),
   total_amount |-> DECIMAL_2(Plus(Plus(subtotal, taxAmount), shipping)),
   items |-> [i \in 1..Len(items) |-> storedItem(items[i])]]

\* the amounts createOrder computes from the subtotal: taxAmount is
\* subtotal * 0.1
amountsOf(items, subtotal) ==
  storedAmounts(items, subtotal, Times(subtotal, NumberOfJSON(100)),
                shippingAmount(subtotal))

\* the amounts createOrder computes for an items array
computeAmounts(items) == amountsOf(items, reduceSubtotal(items, 1, Zero))

\* subtotal, taxAmount, shippingAmount and totalAmount as createOrder
\* computes them and returns them in the order it answers with, as Numbers
responseAmounts(items) ==
  LET subtotal == reduceSubtotal(items, 1, Zero)
      taxAmount == Times(subtotal, NumberOfJSON(100))
      shipping == shippingAmount(subtotal)
  IN [subtotal |-> subtotal, tax_amount |-> taxAmount,
      shipping_amount |-> shipping,
      total_amount |-> Plus(Plus(subtotal, taxAmount), shipping)]

\* the Number a DECIMAL(p,2) value read from the table denotes, the value
\* given in hundredths
NumberOfDecimal(hundredths) == NumberOfJSON(hundredths * 10)

\* generateOrderNumber: the last six digits of the clock; the year prefix is
\* the same for all the orders of a behaviour
generateOrderNumber == now % 1000000

\* index of the row of orders with this id, 0 for none
FindOrderIndex(id) ==
  IF \E i \in 1..Len(orders) : orders[i].id = id
  THEN CHOOSE i \in 1..Len(orders) : orders[i].id = id
  ELSE 0

\* without the unique index on orders.order_number
DuplicateOrderNumber_NoIndex(order_number) == FALSE

\* UNIQUE of column order_number of table orders: a row holds this number,
\* and the INSERT fails with ER_DUP_ENTRY
DuplicateOrderNumber(order_number) ==
  \E i \in 1..Len(orders) : orders[i].order_number = order_number

\* the first item of items whose INSERT violates the foreign key on
\* product_id, Len(items) + 1 for none
RECURSIVE firstFailingItem(_, _)
firstFailingItem(items, i) ==
  IF i > Len(items) \/ items[i].product_id \notin ProductIds THEN i
  ELSE firstFailingItem(items, i + 1)

\* the INSERTs of orders.database createOrder for the amounts a: the order,
\* then the items one by one, without a transaction; an INSERT that violates
\* a constraint throws
insertOrder(orderData, a) ==
  LET order == [id |-> uuidv4, customer_id |-> orderData.customer_id,
                order_number |-> generateOrderNumber,
                subtotal |-> a.subtotal, tax_amount |-> a.tax_amount,
                shipping_amount |-> a.shipping_amount,
                total_amount |-> a.total_amount, status |-> "PENDING",
                shipping_address |->
                   IF Falsy(orderData.shipping_address) THEN null
                   ELSE orderData.shipping_address,
                billing_address |->
                   IF Falsy(orderData.billing_address) THEN null
                   ELSE orderData.billing_address,
                payment_method |->
                   IF Falsy(orderData.payment_method) THEN null
                   ELSE orderData.payment_method,
                payment_status |-> "PENDING"]
      orderFails ==
        \/ \A u \in 1..Len(users) : users[u].id # order.customer_id
        \/ DuplicateOrderNumber(order.order_number)
      k == firstFailingItem(orderData.items, 1)
      n == Len(orderData.items)
      item(i) == [id |-> uuidv4 + i, order_id |-> order.id,
                  product_id |-> orderData.items[i].product_id,
                  quantity |-> orderData.items[i].quantity,
                  unit_price |-> a.items[i].unit_price,
                  total_price |-> a.items[i].total_price]
  IN IF orderFails
     THEN [orders |-> orders, order_items |-> order_items,
           uuids |-> 1, writes |-> 0, threw |-> TRUE]
     ELSE [orders |-> Append(orders, order),
           order_items |-> order_items \o [i \in 1..(k - 1) |-> item(i)],
           uuids |-> 1 + (IF k > n THEN n ELSE k),
           writes |-> k,
           threw |-> k <= n]

\* orders.database createOrder
createOrderData(orderData) ==
  insertOrder(orderData, computeAmounts(orderData.items))

\* an updateOrder that also writes the total of a cancelled order off
updateOrderData_WritesOff(id, updates) ==
  [orders[FindOrderIndex(id)] EXCEPT
     !.status = IF updates.status # undefined THEN updates.status ELSE @,
     !.total_amount = IF updates.status = "CANCELLED" THEN 0 ELSE @]

\* orders.database updateOrder: the row after the UPDATE
updateOrderData(id, updates) ==
  LET o == orders[FindOrderIndex(id)] IN
  [o EXCEPT
     !.status = IF updates.status # undefined THEN updates.status ELSE @,
     !.shipping_address = IF updates.shipping_address # undefined
                          THEN updates.shipping_address ELSE @,
     !.billing_address = IF updates.billing_address # undefined
                         THEN updates.billing_address ELSE @,
     !.payment_method = IF updates.payment_method # undefined
                        THEN updates.payment_method ELSE @,
     !.payment_status = IF updates.payment_status # undefined
                        THEN updates.payment_status ELSE @]

\* setClause.length === 1: no column but updated_at to set
onlyUpdatedAt(updates) == \A k \in DOMAIN updates : updates[k] = undefined

\* res of a handler that answered status, went on, and had its later
\* res.json calls (the next one and the 500 of the catch block) throw
\* ERR_HTTP_HEADERS_SENT
SentThenThrew(op, status, writes) ==
  [op |-> op, status |-> status, sends |-> 3, writes |-> writes, threw |-> TRUE,
   errors |-> <<>>]

\* the end of the controller's createOrder once the data layer went as r:
\* 201 with the order, or the 500 of the catch block
createOrderResponse(r) ==
  /\ orders' = r.orders
  /\ order_items' = r.order_items
  /\ nextId' = nextId + r.uuids
  /\ res' = Reply("createOrder", IF r.threw THEN 500 ELSE 201, r.writes)

\* POST /api/orders: requireAuth, validateBody(createOrderSchema), createOrder
createOrder(caller, body) ==
  LET orderData == createOrderParsed(body) IN
  /\ nextId < MaxOrderUuids
  /\ UNCHANGED <<now, appointments, reviews, users, categories, styles,
                 products, stylists, braids, braidIds, tasks, mw>>
  /\ IF requireAuth(caller) # 0
     THEN /\ res' = Reply("createOrder", requireAuth(caller), 0)
          /\ UNCHANGED <<orders, order_items, nextId>>
     ELSE IF createOrderSchema(body) # <<>>
     THEN /\ res' = ValidationReply("createOrder", createOrderSchema(body))
          /\ UNCHANGED <<orders, order_items, nextId>>
     ELSE IF caller.role # "ADMIN" /\ caller.userId # orderData.customer_id
     THEN /\ res' = Reply("createOrder", 403, 0)
          /\ UNCHANGED <<orders, order_items, nextId>>
     ELSE IF Len(orderData.items) = 0
     THEN /\ res' = Reply("createOrder", 400, 0)
          /\ UNCHANGED <<orders, order_items, nextId>>
     ELSE createOrderResponse(createOrderData(orderData))

\* the answers updateOrder gives a caller who is not an administrator before
\* it goes on to the UPDATE
updateOrderRejections(caller, existingOrder, updates) ==
  IF caller.role = "ADMIN" THEN <<>>
  ELSE (IF caller.userId # existingOrder.customer_id THEN <<403>> ELSE <<>>)
       \o (IF ~Falsy(updates.status) /\ updates.status # "CANCELLED"
           THEN <<403>> ELSE <<>>)
       \o (IF existingOrder.status # "PENDING" THEN <<400>> ELSE <<>>)

\* PUT /api/orders/:id: requireAuth, validateParams(orderParamsSchema),
\* validateBody(updateOrderSchema), updateOrder
updateOrder(caller, id, body) ==
  LET updates == updateOrderParsed(body)
      i == FindOrderIndex(id)
      rejections == updateOrderRejections(caller, orders[i], updates)
  IN
  /\ UNCHANGED <<now, nextId, appointments, reviews, users, categories,
                 order_items, styles, products, stylists, braids, braidIds,
                 tasks, mw>>
  /\ IF requireAuth(caller) # 0
     THEN /\ res' = Reply("updateOrder", requireAuth(caller), 0)
          /\ UNCHANGED orders
     ELSE IF orderParamsSchema(id) # <<>>
     THEN /\ res' = ValidationReply("updateOrder", orderParamsSchema(id))
          /\ UNCHANGED orders
     ELSE IF updateOrderSchema(body) # <<>>
     THEN /\ res' = ValidationReply("updateOrder", updateOrderSchema(body))
          /\ UNCHANGED orders
     ELSE IF i = 0
     THEN /\ res' = Reply("updateOrder", 404, 0)
          /\ UNCHANGED orders
     ELSE IF Len(rejections) >= 2
     THEN /\ res' = SentThenThrew("updateOrder", rejections[1], 0)
          /\ UNCHANGED orders
     ELSE IF onlyUpdatedAt(updates)
     THEN /\ res' = IF Len(rejections) = 1
                    THEN SentThenThrew("updateOrder", rejections[1], 0)
                    ELSE Reply("updateOrder", 400, 0)
          /\ UNCHANGED orders
     ELSE /\ orders' = [orders EXCEPT ![i] = updateOrderData(id, updates)]
          /\ res' = IF Len(rejections) = 1
                    THEN SentThenThrew("updateOrder", rejections[1], 1)
                    ELSE Reply("updateOrder", 200, 1)

\* the answers cancelOrder gives before it goes on to the UPDATE
cancelOrderRejections(caller, existingOrder) ==
  (IF caller.role # "ADMIN" /\ caller.userId # existingOrder.customer_id
   THEN <<403>> ELSE <<>>)
  \o (IF existingOrder.status = "CANCELLED" THEN <<400>> ELSE <<>>)
  \o (IF existingOrder.status = "DELIVERED" THEN <<400>> ELSE <<>>)

\* the body cancelOrder hands to the data layer: { status: 'CANCELLED' }
cancelUpdates ==
  [status |-> "CANCELLED", shipping_address |-> undefined,
   billing_address |-> undefined, payment_method |-> undefined,
   payment_status |-> undefined]

\* POST /api/orders/:id/cancel: requireAuth, validateParams(orderParamsSchema),
\* cancelOrder
cancelOrder(caller, id) ==
  LET i == FindOrderIndex(id)
      rejections == cancelOrderRejections(caller, orders[i])
  IN
  /\ UNCHANGED <<now, nextId, appointments, reviews, users, categories,
                 order_items, styles, products, stylists, braids, braidIds,
                 tasks, mw>>
  /\ IF requireAuth(caller) # 0
     THEN /\ res' = Reply("cancelOrder", requireAuth(caller), 0)
          /\ UNCHANGED orders
     ELSE IF orderParamsSchema(id) # <<>>
     THEN /\ res' = ValidationReply("cancelOrder", orderParamsSchema(id))
          /\ UNCHANGED orders
     ELSE IF i = 0
     THEN /\ res' = Reply("cancelOrder", 404, 0)
          /\ UNCHANGED orders
     ELSE IF Len(rejections) >= 2
     THEN /\ res' = SentThenThrew("cancelOrder", rejections[1], 0)
          /\ UNCHANGED orders
     ELSE /\ orders' = [orders EXCEPT ![i] = updateOrderData(id, cancelUpdates)]
          /\ res' = IF Len(rejections) = 1
                    THEN SentThenThrew("cancelOrder", rejections[1], 1)
                    ELSE Reply("cancelOrder", 200, 1)

\* res of a handler that answered once with data in the body
DataReply(op, status, data) ==
  [op |-> op, status |-> status, sends |-> 1, writes |-> 0, threw |-> FALSE,
   errors |-> <<>>, data |-> data]

\* no check of the owner of an order
notOwnerNorAdmin_Never(authUser, customer_id) == FALSE

\* authUser.role !== 'ADMIN' && authUser.userId !== order.customer_id
notOwnerNorAdmin(authUser, customer_id) ==
  authUser.role # "ADMIN" /\ authUser.userId # customer_id

customerParamsSchema(customerId) == uuidSchema("customerId", customerId)

\* orders.database getOrdersByCustomer: the rows WHERE customer_id = ?
getOrdersByCustomerData(customerId) ==
  SelectSeq(orders, LAMBDA o : o.customer_id = customerId)

\* orders.database getOrderItems: the rows WHERE order_id = ?
getOrderItems(orderId) ==
  SelectSeq(order_items, LAMBDA item : item.order_id = orderId)

\* the stores are as they were after a request that reads
ReadOnly ==
  UNCHANGED <<now, nextId, appointments, reviews, users, categories, styles,
              orders, order_items, products, stylists, braids, braidIds,
              tasks, mw>>

\* GET /api/orders/customer/:customerId: requireAuth,
\* validateParams(customerParamsSchema), getCustomerOrders
getCustomerOrders(caller, customerId) ==
  /\ ReadOnly
  /\ res' = IF requireAuth(caller) # 0
            THEN Reply("getCustomerOrders", requireAuth(caller), 0)
            ELSE IF customerParamsSchema(customerId) # <<>>
            THEN ValidationReply("getCustomerOrders",
                                 customerParamsSchema(customerId))
            ELSE IF notOwnerNorAdmin(caller, customerId)
            THEN Reply("getCustomerOrders", 403, 0)
            ELSE DataReply("getCustomerOrders", 200,
                           getOrdersByCustomerData(customerId))

\* GET /api/orders/:id: requireAuth, validateParams(orderParamsSchema),
\* getOrderById
getOrderById(caller, id) ==
  /\ ReadOnly
  /\ res' = IF requireAuth(caller) # 0
            THEN Reply("getOrderById", requireAuth(caller), 0)
            ELSE IF orderParamsSchema(id) # <<>>
            THEN ValidationReply("getOrderById", orderParamsSchema(id))
            ELSE IF FindOrderIndex(id) = 0
            THEN Reply("getOrderById", 404, 0)
            ELSE IF notOwnerNorAdmin(caller, orders[FindOrderIndex(id)].customer_id)
            THEN Reply("getOrderById", 403, 0)
            ELSE DataReply("getOrderById", 200, <<orders[FindOrderIndex(id)]>>)

\* GET /api/orders/:id/items: requireAuth, validateParams(orderParamsSchema),
\* getOrderWithItems
getOrderWithItems(caller, id) ==
  /\ ReadOnly
  /\ res' = IF requireAuth(caller) # 0
            THEN Reply("getOrderWithItems", requireAuth(caller), 0)
            ELSE IF orderParamsSchema(id) # <<>>
            THEN ValidationReply("getOrderWithItems", orderParamsSchema(id))
            ELSE IF FindOrderIndex(id) = 0
            THEN Reply("getOrderWithItems", 404, 0)
            ELSE IF notOwnerNorAdmin(caller, orders[FindOrderIndex(id)].customer_id)
            THEN Reply("getOrderWithItems", 403, 0)
            ELSE DataReply("getOrderWithItems", 200,
                           <<[customer_id |-> orders[FindOrderIndex(id)].customer_id,
                              order |-> orders[FindOrderIndex(id)],
                              items |-> getOrderItems(id)]>>)

\* the clock advances
Tick ==
  /\ now < MaxNow
  /\ now' = now + 1
  /\ UNCHANGED <<nextId, appointments, reviews, users, categories, orders,
                 order_items, styles, products, stylists, braids, braidIds,
                 tasks, mw, res>>

\* a thousand seconds pass: the last six digits of the clock in
\* milliseconds come round again
Later ==
  /\ now < 1000000
  /\ now' = now + 1000000
  /\ UNCHANGED <<nextId, appointments, reviews, users, categories, orders,
                 order_items, styles, products, stylists, braids, braidIds,
                 tasks, mw, res>>

\* request bodies of POST /api/orders the model sends
CreateOrderBodies ==
  [customer_id : {402, 499, NotAUuid},
   items : ItemLists,
   shipping_address : {undefined, "short"},
   billing_address : {undefined},
   payment_method : {undefined}]

\* request bodies of PUT /api/orders/:id the model sends
UpdateOrderBodies ==
  [status : {undefined, "CANCELLED", "DELIVERED", "BOGUS"},
   shipping_address : {undefined, "12 Main Street, Springfield "},
   billing_address : {undefined},
   payment_method : {undefined},
   payment_status : {undefined}]

\* the ids a request can name: those of the stored orders, one that
\* resolves to nothing and one that is not a UUID
OrderIds == {orders[i].id : i \in 1..Len(orders)} \cup {999, NotAUuid}

NextOrders ==
  \/ \E caller \in Callers, body \in CreateOrderBodies : createOrder(caller, body)
  \/ \E caller \in Callers, id \in OrderIds, body \in UpdateOrderBodies :
        updateOrder(caller, id, body)
  \/ \E caller \in Callers, id \in OrderIds : cancelOrder(caller, id)
  \/ Tick

----------------------------------------------------------------------------
(* Validation middleware: src/src/middleware/validation.middleware.ts,     *)
(* with the schemas of its tests in src/src/__tests__/index.test.ts.  A    *)
(* JavaScript value is written as its JSON text, so the string "25" and    *)
(* the number 25 differ; an object is a function from its keys.            *)

\* the object with the properties of the record r that are not undefined
Object(r) == [k \in {key \in DOMAIN r : r[key] # undefined} |-> r[k]]

\* data[key]
Get(data, key) == IF key \in DOMAIN data THEN data[key] ELSE undefined

\* s.length, over the strings of the requests
Length(s) ==
  CASE s = "\"A\"" -> 1
    [] s = "\"25\"" -> 2
    [] s = "\"abc\"" -> 3
    [] s = "\"bar\"" -> 3
    [] s = "\"  Juan  \"" -> 8
    [] s = "\"Test Name\"" -> 9
    [] s = "\"not-a-uuid\"" -> 10
    [] s = "\"email-invalido\"" -> 14
    [] s = "\"JUAN@EXAMPLE.COM\"" -> 16
    [] s = "\"550e8400-e29b-41d4-a716-446655440000\"" -> 36

\* s.trim()
Trim(s) == IF s = "\"  Juan  \"" THEN "\"Juan\"" ELSE s

\* s.toLowerCase()
ToLowerCase(s) ==
  IF s = "\"JUAN@EXAMPLE.COM\"" THEN "\"juan@example.com\"" ELSE s

\* Number(s)
Number(s) == IF s = "\"25\"" THEN "25" ELSE "NaN"

\* the string checks of the schemas: /^\d+$/, .email(), .uuid()
IsDigits(s) == s = "\"25\""
IsEmail(s) == s = "\"JUAN@EXAMPLE.COM\""
IsUuid(s) == s = "\"550e8400-e29b-41d4-a716-446655440000\""

\* A schema is the shape of a z.object, a sequence of properties each with
\* the kind of its value, and a refinement.

\* a property of a shape
property(key, kind, optional) ==
  [key |-> key, kind |-> kind, optional |-> optional]

\* z.object(shape)
ZodObject(shape) == [shape |-> shape, refine |-> "none"]

\* no schema for a location of validateMultiple
NoSchema == [shape |-> <<>>, refine |-> "absent"]

\* a schema with a refinement that returns a promise: parse throws an Error
\* that is not a ZodError
AsyncRefined(schema) == [shape |-> schema.shape, refine |-> "async"]

\* the schema of the transformation test
transformSchema ==
  ZodObject(<< property("email", "email", FALSE),
               property("age", "digits", FALSE),
               property("name", "trimmed", FALSE) >>)

\* the schema of the params tests
paramsSchema == ZodObject(<< property("id", "uuid", FALSE) >>)

\* the schemas of the validateMultiple tests
schemas ==
  [body |-> ZodObject(<< property("name", "min2", FALSE) >>),
   params |-> ZodObject(<< property("id", "uuid", FALSE) >>),
   query |-> ZodObject(<< property("page", "digits", TRUE) >>)]

\* the issues of the value v of property p
propertyIssues(p, v) ==
  IF v = undefined
  THEN IF p.optional THEN <<>> ELSE << issue(p.key, "Required") >>
  ELSE IF p.kind = "email" /\ ~IsEmail(v)
  THEN << issue(p.key, "Invalid email") >>
  ELSE IF p.kind = "digits" /\ ~IsDigits(v)
  THEN << issue(p.key, "Invalid") >>
  ELSE IF p.kind = "uuid" /\ ~IsUuid(v)
  THEN << issue(p.key, "Invalid uuid") >>
  ELSE IF p.kind = "min2" /\ Length(v) < 2
  THEN << issue(p.key, "String must contain at least 2 character(s)") >>
  ELSE <<>>

\* the value the schema of a property gives for the accepted value v
propertyValue(kind, v) ==
  IF kind = "email" THEN ToLowerCase(Trim(v))
  ELSE IF kind = "digits" THEN Number(v)
  ELSE IF kind = "trimmed" THEN Trim(v)
  ELSE v

\* the issues of the properties from the i-th on
RECURSIVE shapeIssues(_, _, _)
shapeIssues(shape, data, i) ==
  IF i > Len(shape) THEN <<>>
  ELSE propertyIssues(shape[i], Get(data, shape[i].key))
         \o shapeIssues(shape, data, i + 1)

\* the object a z.object gives for accepted data: the properties of the
\* shape that are present, transformed; unknown keys are stripped
shapeValue(shape, data) ==
  [k \in {shape[i].key : i \in 1..Len(shape)} \cap DOMAIN data |->
     propertyValue((CHOOSE p \in {shape[i] : i \in 1..Len(shape)} : p.key = k).kind,
                   data[k])]

\* schema.parse(data): the value, a ZodError with its issues, or another Error
parse(schema, data) ==
  IF schema.refine = "async"
  THEN [kind |-> "Error", value |-> data, issues |-> <<>>]
  ELSE IF shapeIssues(schema.shape, data, 1) # <<>>
  THEN [kind |-> "ZodError", value |-> data,
        issues |-> shapeIssues(schema.shape, data, 1)]
  ELSE [kind |-> "ok", value |-> shapeValue(schema.shape, data), issues |-> <<>>]

\* Object.keys(validated).forEach(key => { req.query[key] = validated[key] })
copyOnto(query, validated) ==
  [k \in DOMAIN query \cup DOMAIN validated |->
     IF k \in DOMAIN validated THEN validated[k] ELSE query[k]]

\* req.query as the next handler reads it after the middleware wrote
\* written into the object it read: that object where Express keeps the
\* parsed query on the request (version 4), the query parsed anew from the
\* URL where req.query is a getter (version 5)
queryRead(raw, written, getter) == IF getter THEN raw ELSE written

\* the keys of the JSON bodies the middlewares and the test handler send
ErrorEnvelope == {"success", "message", "errors", "timestamp"}
InternalErrorEnvelope == {"success", "message", "timestamp"}
HandlerEnvelope == {"success", "data"}

\* the schemas of a route that validates one location
only(target, schema) ==
  [[body |-> NoSchema, params |-> NoSchema, query |-> NoSchema]
     EXCEPT ![target] = schema]

\* mw of a request the middleware answered itself: the schemas of the
\* route, the request as it arrived and as the middleware left it
Stopped(s, raw, req, envelope) ==
  [schemas |-> s, raw |-> raw, req |-> req, next |-> FALSE,
   envelope |-> envelope]

\* mw of a request the middleware handed to the next handler, which read req
Continued(s, raw, req) ==
  [schemas |-> s, raw |-> raw, req |-> req, next |-> TRUE,
   envelope |-> HandlerEnvelope]

\* validate(schema, target) in front of the test handler
validate(op, schema, target, req, getter) ==
  LET result == parse(schema, req[target]) IN
  /\ UNCHANGED <<now, nextId, appointments, reviews, users, categories,
                 orders, order_items, styles, products, stylists, braids,
                 braidIds, tasks>>
  /\ IF result.kind = "ok"
     THEN /\ mw' = Continued(only(target, schema), req,
                     IF target = "query"
                     THEN [req EXCEPT !.query =
                             queryRead(@, copyOnto(@, result.value), getter)]
                     ELSE [req EXCEPT ![target] = result.value])
          /\ res' = Reply(op, 200, 0)
     ELSE IF result.kind = "ZodError"
     THEN /\ mw' = Stopped(only(target, schema), req, req, ErrorEnvelope)
          /\ res' = ValidationReply(op, result.issues)
     ELSE /\ mw' = Stopped(only(target, schema), req, req, InternalErrorEnvelope)
          /\ res' = Reply(op, 500, 0)

validateBody(schema, req) == validate("validateBody", schema, "body", req, FALSE)
validateParams(schema, req) ==
  validate("validateParams", schema, "params", req, FALSE)
validateQuery(schema, req, getter) ==
  validate("validateQuery", schema, "query", req, getter)

\* the errors one location adds in validateMultiple
locationErrors(schema, data) ==
  IF schema.refine # "absent" /\ parse(schema, data).kind = "ZodError"
  THEN parse(schema, data).issues ELSE <<>>

\* a location after validateMultiple assigned the parsed value to it
locationParsed(schema, data) ==
  IF schema.refine # "absent" /\ parse(schema, data).kind = "ok"
  THEN parse(schema, data).value ELSE data

\* req.query after validateMultiple copied the parsed properties onto it
queryCopied(schema, data) ==
  IF schema.refine # "absent" /\ parse(schema, data).kind = "ok"
  THEN copyOnto(data, parse(schema, data).value) ELSE data

\* validateMultiple(s) in front of the test handler
validateMultiple(s, req, getter) ==
  LET errors == locationErrors(s.body, req.body)
                  \o locationErrors(s.params, req.params)
                  \o locationErrors(s.query, req.query)
  IN
  /\ UNCHANGED <<now, nextId, appointments, reviews, users, categories,
                 orders, order_items, styles, products, stylists, braids,
                 braidIds, tasks>>
  /\ IF Len(errors) > 0
     THEN /\ mw' = Stopped(s, req,
                           [body |-> locationParsed(s.body, req.body),
                            params |-> locationParsed(s.params, req.params),
                            query |-> queryCopied(s.query, req.query)],
                           ErrorEnvelope)
          /\ res' = ValidationReply("validateMultiple", errors)
     ELSE /\ mw' = Continued(s, req,
                             [body |-> locationParsed(s.body, req.body),
                              params |-> locationParsed(s.params, req.params),
                              query |-> queryRead(req.query,
                                                  queryCopied(s.query, req.query),
                                                  getter)])
          /\ res' = Reply("validateMultiple", 200, 0)

\* the requests the model sends through the middlewares
RequestBodies ==
  { Object([email |-> "\"JUAN@EXAMPLE.COM\"", age |-> "\"25\"",
            name |-> "\"  Juan  \""]),
    Object([email |-> "\"JUAN@EXAMPLE.COM\"", age |-> "\"25\"",
            name |-> "\"Test Name\"", role |-> "\"ADMIN\""]),
    Object([email |-> "\"email-invalido\"", age |-> "\"abc\"",
            name |-> "\"A\""]),
    Object([name |-> "\"Test Name\""]) }
RequestParams ==
  { Object([id |-> id]) :
      id \in {"\"550e8400-e29b-41d4-a716-446655440000\"", "\"not-a-uuid\""} }
RequestQueries ==
  { Object([page |-> undefined]),
    Object([page |-> "\"25\""]),
    Object([page |-> "\"abc\""]),
    Object([page |-> "\"25\"", foo |-> "\"bar\""]) }
Requests == [body : RequestBodies, params : RequestParams, query : RequestQueries]

\* the schemas the model hands to validate and validateMultiple
BodySchemas == {transformSchema, schemas.body, AsyncRefined(schemas.body)}
MultipleSchemas ==
  [body : {NoSchema, schemas.body, AsyncRefined(schemas.body)},
   params : {NoSchema, schemas.params},
   query : {NoSchema, schemas.query}]

NextValidate ==
  \/ \E schema \in BodySchemas, req \in Requests : validateBody(schema, req)
  \/ \E req \in Requests : validateParams(paramsSchema, req)
  \/ \E req \in Requests, getter \in BOOLEAN :
        validateQuery(schemas.query, req, getter)
  \/ \E s \in MultipleSchemas, req \in Requests, getter \in BOOLEAN :
        validateMultiple(s, req, getter)

----------------------------------------------------------------------------
(* Users: schemas src/src/schemas/users.schema.ts and auth.schema.ts, data *)
(* layer src/src/data/users.database.ts over table users, controllers      *)
(* users.controller.ts and auth.controller.ts, routes users.routes.ts      *)

\* what .email() and email.toLowerCase() give for the email texts of the
\* requests and the rows; all are 1 to 255 characters long
EmailTexts ==
  [text |-> <<"ana@example.com", "Ana@Example.com", "bea@example.com",
              "admin@laurabraids.com", "email-invalido">>,
   email |-> <<TRUE, TRUE, TRUE, TRUE, FALSE>>,
   toLowerCase |-> <<"ana@example.com", "ana@example.com", "bea@example.com",
                     "admin@laurabraids.com", "email-invalido">>]

EmailIndex(email) ==
  CHOOSE i \in 1..Len(EmailTexts.text) : EmailTexts.text[i] = email

\* emailSchema of users.schema.ts
emailSchema(field, email) ==
  IF EmailTexts.email[EmailIndex(email)] THEN <<>>
  ELSE issue(field, "Formato de email inválido")

\* the value emailSchema hands on: lower-cased, then trimmed (.email() has
\* accepted no text with surrounding whitespace)
emailTransform(email) == EmailTexts.toLowerCase[EmailIndex(email)]

\* password.length and the outcome of /^(?=.*[a-z])(?=.*[A-Z])(?=.*\d)/
PasswordTexts ==
  [text |-> <<"Password1", "short", "Password2">>,
   length |-> <<9, 5, 9>>,
   regex |-> <<TRUE, FALSE, TRUE>>]

PasswordIndex(password) ==
  CHOOSE i \in 1..Len(PasswordTexts.text) : PasswordTexts.text[i] = password

passwordSchema(field, password) ==
  (IF PasswordTexts.length[PasswordIndex(password)] < 8
   THEN issue(field, "La contraseña debe tener al menos 8 caracteres")
   ELSE <<>>)
  \o (IF PasswordTexts.length[PasswordIndex(password)] > 128
      THEN issue(field, "La contraseña no puede exceder 128 caracteres")
      ELSE <<>>)
  \o (IF ~PasswordTexts.regex[PasswordIndex(password)]
      THEN issue(field, "La contraseña debe contener al menos una mayúscula, una minúscula y un número")
      ELSE <<>>)

\* name.length and name.trim() of the names; all are letters and spaces
NameTexts ==
  [text |-> <<"Ana", "Bea ", "A">>,
   length |-> <<3, 4, 1>>,
   trim |-> <<"Ana", "Bea", "A">>]

NameIndex(name) == CHOOSE i \in 1..Len(NameTexts.text) : NameTexts.text[i] = name

nameSchema(field, name) ==
  IF NameTexts.length[NameIndex(name)] < 2
  THEN issue(field, "El nombre debe tener al menos 2 caracteres")
  ELSE IF NameTexts.length[NameIndex(name)] > 100
  THEN issue(field, "El nombre no puede exceder 100 caracteres")
  ELSE <<>>

nameTransform(name) == NameTexts.trim[NameIndex(name)]

\* userRoleSchema: CUSTOMER when the body names no role
userRoleSchema(role) == IF role = undefined THEN "CUSTOMER" ELSE role

\* the issues of a role that is present: z.enum([CUSTOMER, ADMIN]) in
\* users.schema.ts, z.nativeEnum(UserRole) in auth.schema.ts
userRoleIssues(role, message) ==
  IF role \in {undefined, "CUSTOMER", "ADMIN"} THEN <<>>
  ELSE issue("role", message)

createUserSchema(body) ==
  nameSchema("name", body.name)
  \o emailSchema("email", body.email)
  \o passwordSchema("password", body.password)
  \o userRoleIssues(body.role, "Invalid enum value")

\* the body a handler behind validateBody(createUserSchema) reads
createUserParsed(body) ==
  [name |-> nameTransform(body.name), email |-> emailTransform(body.email),
   password |-> body.password, role |-> userRoleSchema(body.role)]

\* registerSchema of auth.schema.ts
registerSchema(body) ==
  nameSchema("name", body.name)
  \o (IF EmailTexts.email[EmailIndex(body.email)] THEN <<>>
      ELSE issue("email", "Debe ser un email válido"))
  \o passwordSchema("password", body.password)
  \o userRoleIssues(body.role, "Rol de usuario inválido")

\* the body a handler behind validateBody(registerSchema) reads
registerParsed(body) ==
  [name |-> nameTransform(body.name), email |-> emailTransform(body.email),
   password |-> body.password, role |-> userRoleSchema(body.role)]

\* updateUserSchema: the optional fields, then Object.keys(data).length > 0
updateUserSchema(body) ==
  (IF body.name = undefined THEN <<>> ELSE nameSchema("name", body.name))
  \o (IF body.email = undefined THEN <<>> ELSE emailSchema("email", body.email))
  \o userRoleIssues(body.role, "Invalid enum value")
  \o (IF \A k \in DOMAIN body : body[k] = undefined
      THEN issue("", "Debe proporcionar al menos un campo para actualizar")
      ELSE <<>>)

\* the body a handler behind validateBody(updateUserSchema) reads
updateUserParsed(body) ==
  [name |-> IF body.name = undefined THEN undefined ELSE nameTransform(body.name),
   email |-> IF body.email = undefined THEN undefined
             ELSE emailTransform(body.email),
   role |-> body.role]

userParamsSchema(id) == uuidSchema("id", id)

\* the key by which the collation of the database, utf8mb4_unicode_ci,
\* compares two texts: it ignores case and accents
utf8mb4_unicode_ci(text) ==
  CASE text = "Ana@Example.com" -> "ana@example.com"
    [] text = "Protectoras" -> "protectoras"
    [] text = "Clásicas" -> "clasicas"
    [] text = "Modernas" -> "modernas"
    [] text = "Extensiones" -> "extensiones"
    [] text = "Especiales" -> "especiales"
    [] text = "Nuevas" -> "nuevas"
    [] text = "Festivas" -> "festivas"
    [] OTHER -> text

\* without the unique index on users.email
DuplicateEntry_NoIndex(email, i) == FALSE

\* UNIQUE of column email of table users: a row other than row i, active or
\* not, holds this email, and the statement fails with ER_DUP_ENTRY
DuplicateEntry(email, i) ==
  \E j \in 1..Len(users) :
     j # i /\ utf8mb4_unicode_ci(users[j].email) = utf8mb4_unicode_ci(email)

\* getUserById: position of the active row with this id, 0 for null
getUserById(id) ==
  IF \E i \in 1..Len(users) : users[i].id = id /\ users[i].is_active
  THEN CHOOSE i \in 1..Len(users) : users[i].id = id /\ users[i].is_active
  ELSE 0

\* the rows of SELECT ... WHERE email = ? AND is_active = true
activeWithEmail(email) ==
  { i \in 1..Len(users) :
      /\ utf8mb4_unicode_ci(users[i].email) = utf8mb4_unicode_ci(email)
      /\ users[i].is_active }

\* getUserByEmail: position of rows[0], 0 for null
getUserByEmail(email) ==
  IF activeWithEmail(email) = {} THEN 0
  ELSE CHOOSE i \in activeWithEmail(email) : \A j \in activeWithEmail(email) : i <= j

\* addUser: the table after the INSERT, or that it threw
addUser(user) ==
  IF DuplicateEntry(user.email, 0)
  THEN [users |-> users, threw |-> TRUE, writes |-> 0]
  ELSE [users |-> Append(users,
                         [id |-> user.id, name |-> user.name,
                          email |-> user.email,
                          password_hash |-> user.password_hash,
                          role |-> user.role, is_active |-> TRUE]),
        threw |-> FALSE, writes |-> 1]

\* users.database updateUser: null without a statement when no column is
\* set, else the UPDATE of the active row and what getUserById then returns
updateUserData(id, updates) ==
  IF \A k \in DOMAIN updates : updates[k] = undefined
  THEN [users |-> users, threw |-> FALSE, writes |-> 0, found |-> FALSE,
        row |-> 0]
  ELSE IF getUserById(id) = 0
  THEN [users |-> users, threw |-> FALSE, writes |-> 0, found |-> FALSE,
        row |-> 0]
  ELSE IF updates.email # undefined /\ DuplicateEntry(updates.email, getUserById(id))
  THEN [users |-> users, threw |-> TRUE, writes |-> 0, found |-> FALSE,
        row |-> 0]
  ELSE [users |-> [users EXCEPT ![getUserById(id)] =
                     [@ EXCEPT
                        !.name = IF updates.name # undefined
                                 THEN updates.name ELSE @,
                        !.email = IF updates.email # undefined
                                  THEN updates.email ELSE @,
                        !.role = IF updates.role # undefined
                                 THEN updates.role ELSE @]],
        threw |-> FALSE, writes |-> 1, found |-> TRUE,
        row |-> getUserById(id)]

\* users.database deleteUser: the soft delete of the active row
deleteUserData(id) ==
  IF getUserById(id) = 0
  THEN [users |-> users, affectedRows |-> 0]
  ELSE [users |-> [users EXCEPT ![getUserById(id)].is_active = FALSE],
        affectedRows |-> 1]

\* the user the controllers build from the validated body
newUser(parsed) ==
  [id |-> uuidv4, name |-> parsed.name, email |-> parsed.email,
   password_hash |-> "hash", role |-> parsed.role]

\* a reply with data in its body
WithData(reply, data) ==
  [k \in DOMAIN reply \cup {"data"} |-> IF k = "data" THEN data ELSE reply[k]]

\* a user sent as it is
safeUser_Whole(user) == user

\* const { password_hash, ...safeUser } = user
safeUser(user) == [k \in DOMAIN user \ {"password_hash"} |-> user[k]]

\* createAuthResponse: the token, whose payload is userId, email and role,
\* and the id, name, email and role of the user
createAuthResponse(user) ==
  [token |-> [userId |-> user.id, email |-> user.email, role |-> user.role],
   user |-> [id |-> user.id, name |-> user.name, email |-> user.email,
             role |-> user.role]]

\* the end of register and createUser once addUser went as r: 201 with the
\* data the handler built from user, or the 500 of the catch block
addUserResponse(op, user, r) ==
  /\ users' = r.users
  /\ nextId' = nextId + 1
  /\ res' = IF r.threw THEN Reply(op, 500, r.writes)
            ELSE WithData(Reply(op, 201, r.writes),
                          IF op = "register" THEN createAuthResponse(user)
                          ELSE safeUser(user))

\* POST /api/auth/register: validateBody(registerSchema), register
register(body) ==
  /\ nextId < MaxUsersCreated
  /\ UNCHANGED <<now, appointments, reviews, categories, orders, order_items,
                 styles, products, stylists, braids, braidIds, tasks, mw>>
  /\ IF registerSchema(body) # <<>>
     THEN /\ res' = ValidationReply("register", registerSchema(body))
          /\ UNCHANGED <<users, nextId>>
     ELSE IF getUserByEmail(registerParsed(body).email) # 0
     THEN /\ res' = Reply("register", 409, 0)
          /\ UNCHANGED <<users, nextId>>
     ELSE addUserResponse("register", newUser(registerParsed(body)),
                          addUser(newUser(registerParsed(body))))

\* request bodies of POST /api/auth/register that two requests send at the
\* same time
ConcurrentRegisterBodies ==
  [name : {"Ana"},
   email : {"ana@example.com", "Ana@Example.com", "bea@example.com",
            "admin@laurabraids.com", "email-invalido"},
   password : {"Password1"},
   role : {undefined}]

\* the other variables of the steps of a registration
RegisterFrame ==
  UNCHANGED <<now, appointments, reviews, categories, orders, order_items,
              styles, products, stylists, braids, braidIds, mw>>

\* a request POST /api/auth/register arrives: validateBody(registerSchema)
\* answers 400 or hands the parsed body to register
receiveRegister(r, body) ==
  /\ tasks[r].pc = "idle"
  /\ RegisterFrame
  /\ UNCHANGED <<users, nextId>>
  /\ IF registerSchema(body) # <<>>
     THEN /\ res' = ValidationReply("register", registerSchema(body))
          /\ tasks' = [tasks EXCEPT ![r] = [pc |-> "answered", body |-> body,
                                            status |-> 400]]
     ELSE /\ UNCHANGED res
          /\ tasks' = [tasks EXCEPT ![r] = [pc |-> "validated", body |-> body,
                                            status |-> 0]]

\* register up to its second await: const existingUser = await
\* getUserByEmail(email), the answer 409, await bcrypt.hash(...)
registerCheckEmail(r) ==
  /\ tasks[r].pc = "validated"
  /\ RegisterFrame
  /\ UNCHANGED <<users, nextId>>
  /\ IF getUserByEmail(registerParsed(tasks[r].body).email) # 0
     THEN /\ res' = Reply("register", 409, 0)
          /\ tasks' = [tasks EXCEPT ![r].pc = "answered", ![r].status = 409]
     ELSE /\ UNCHANGED res
          /\ tasks' = [tasks EXCEPT ![r].pc = "checked"]

\* register from the hash on: newUser, await addUser(newUser) and the
\* answer 201, or the 500 of the catch block when the INSERT threw
registerAddUser(r) ==
  /\ tasks[r].pc = "checked"
  /\ RegisterFrame
  /\ addUserResponse("register", newUser(registerParsed(tasks[r].body)),
                     addUser(newUser(registerParsed(tasks[r].body))))
  /\ tasks' = [tasks EXCEPT ![r].pc = "answered", ![r].status = res'.status]

\* two registrations in flight, their steps interleaved
NextConcurrentRegister ==
  \/ \E r \in InFlight, body \in ConcurrentRegisterBodies :
        receiveRegister(r, body)
  \/ \E r \in InFlight : registerCheckEmail(r)
  \/ \E r \in InFlight : registerAddUser(r)

\* POST /api/users: validateBody(createUserSchema), createUser
createUser(body) ==
  /\ nextId < MaxUsersCreated
  /\ UNCHANGED <<now, appointments, reviews, categories, orders, order_items,
                 styles, products, stylists, braids, braidIds, tasks, mw>>
  /\ IF createUserSchema(body) # <<>>
     THEN /\ res' = ValidationReply("createUser", createUserSchema(body))
          /\ UNCHANGED <<users, nextId>>
     ELSE IF getUserByEmail(createUserParsed(body).email) # 0
     THEN /\ res' = Reply("createUser", 409, 0)
          /\ UNCHANGED <<users, nextId>>
     ELSE addUserResponse("createUser", newUser(createUserParsed(body)),
                          addUser(newUser(createUserParsed(body))))

\* the status requireAdmin answers with, 0 when it calls next()
requireAdmin(caller) ==
  IF caller.token = "missing" THEN 401
  ELSE IF caller.token = "malformed" THEN 403
  ELSE IF caller.role # "ADMIN" THEN 403
  ELSE 0

\* the status requireOwnerOrAdmin answers with, 0 when it calls next()
requireOwnerOrAdmin(caller, id) ==
  IF caller.token = "missing" THEN 401
  ELSE IF caller.token = "malformed" THEN 403
  ELSE IF caller.userId # id /\ caller.role # "ADMIN" THEN 403
  ELSE 0

\* the end of updateUser once updateUserData went as r
updateUserResponse(r) ==
  /\ users' = r.users
  /\ res' = IF r.threw THEN Reply("updateUser", 500, r.writes)
            ELSE IF r.found
            THEN WithData(Reply("updateUser", 200, r.writes),
                          safeUser(r.users[r.row]))
            ELSE Reply("updateUser", 404, r.writes)

\* the updates updateUser builds: the fields of the body that are truthy
userUpdates(parsed) ==
  [name |-> IF Falsy(parsed.name) THEN undefined ELSE parsed.name,
   email |-> IF Falsy(parsed.email) THEN undefined ELSE parsed.email,
   role |-> IF Falsy(parsed.role) THEN undefined ELSE parsed.role]

\* PUT /api/users/:id: requireOwnerOrAdmin, validateParams(userParamsSchema),
\* validateBody(updateUserSchema), updateUser
updateUser(caller, id, body) ==
  /\ UNCHANGED <<now, nextId, appointments, reviews, categories, orders,
                 order_items, styles, products, stylists, braids, braidIds,
                 tasks, mw>>
  /\ IF requireOwnerOrAdmin(caller, id) # 0
     THEN /\ res' = Reply("updateUser", requireOwnerOrAdmin(caller, id), 0)
          /\ UNCHANGED users
     ELSE IF userParamsSchema(id) # <<>>
     THEN /\ res' = ValidationReply("updateUser", userParamsSchema(id))
          /\ UNCHANGED users
     ELSE IF updateUserSchema(body) # <<>>
     THEN /\ res' = ValidationReply("updateUser", updateUserSchema(body))
          /\ UNCHANGED users
     ELSE IF getUserById(id) = 0
     THEN /\ res' = Reply("updateUser", 404, 0)
          /\ UNCHANGED users
     ELSE IF /\ ~Falsy(updateUserParsed(body).email)
             /\ getUserByEmail(updateUserParsed(body).email) # 0
             /\ users[getUserByEmail(updateUserParsed(body).email)].id # id
     THEN /\ res' = Reply("updateUser", 409, 0)
          /\ UNCHANGED users
     ELSE updateUserResponse(updateUserData(id, userUpdates(updateUserParsed(body))))

\* DELETE /api/users/:id: requireAdmin, validateParams(userParamsSchema),
\* deleteUser
deleteUser(caller, id) ==
  /\ UNCHANGED <<now, nextId, appointments, reviews, categories, orders,
                 order_items, styles, products, stylists, braids, braidIds,
                 tasks, mw>>
  /\ IF requireAdmin(caller) # 0
     THEN /\ res' = Reply("deleteUser", requireAdmin(caller), 0)
          /\ UNCHANGED users
     ELSE IF userParamsSchema(id) # <<>>
     THEN /\ res' = ValidationReply("deleteUser", userParamsSchema(id))
          /\ UNCHANGED users
     ELSE /\ users' = deleteUserData(id).users
          /\ res' = Reply("deleteUser",
                          IF deleteUserData(id).affectedRows > 0 THEN 204 ELSE 404,
                          deleteUserData(id).affectedRows)

\* the stores are as they were after a request that reads users
ReadsUsers ==
  UNCHANGED <<now, nextId, appointments, reviews, users, categories, styles,
              orders, order_items, products, stylists, braids, braidIds,
              tasks, mw>>

\* users.database getUsers: the rows WHERE is_active = true
getUsersData == SelectSeq(users, LAMBDA user : user.is_active)

\* GET /api/users/all: requireAdmin, getUsers
getUsers(caller) ==
  /\ ReadsUsers
  /\ res' = IF requireAdmin(caller) # 0
            THEN Reply("getUsers", requireAdmin(caller), 0)
            ELSE WithData(Reply("getUsers", 200, 0),
                          [i \in 1..Len(getUsersData) |-> safeUser(getUsersData[i])])

\* GET /api/users/:id: requireOwnerOrAdmin, validateParams(userParamsSchema),
\* getUserById of the controller
getUserByIdRequest(caller, id) ==
  /\ ReadsUsers
  /\ res' = IF requireOwnerOrAdmin(caller, id) # 0
            THEN Reply("getUserById", requireOwnerOrAdmin(caller, id), 0)
            ELSE IF userParamsSchema(id) # <<>>
            THEN ValidationReply("getUserById", userParamsSchema(id))
            ELSE IF getUserById(id) = 0
            THEN Reply("getUserById", 404, 0)
            ELSE WithData(Reply("getUserById", 200, 0),
                          safeUser(users[getUserById(id)]))

\* loginSchema of auth.schema.ts
loginSchema(body) ==
  (IF EmailTexts.email[EmailIndex(body.email)] THEN <<>>
   ELSE issue("email", "Debe ser un email válido"))
  \o (IF PasswordTexts.length[PasswordIndex(body.password)] < 8
      THEN issue("password", "La contraseña debe tener al menos 8 caracteres")
      ELSE <<>>)

\* bcrypt.compare: every stored hash is the hash of Password1
bcryptCompare(password, password_hash) ==
  password = "Password1" /\ password_hash = "hash"

\* POST /api/auth/login: validateBody(loginSchema), login
login(body) ==
  /\ ReadsUsers
  /\ res' = IF loginSchema(body) # <<>>
            THEN ValidationReply("login", loginSchema(body))
            ELSE IF getUserByEmail(emailTransform(body.email)) = 0
            THEN Reply("login", 401, 0)
            ELSE IF ~bcryptCompare(body.password,
                        users[getUserByEmail(emailTransform(body.email))].password_hash)
            THEN Reply("login", 401, 0)
            ELSE WithData(Reply("login", 200, 0),
                          createAuthResponse(
                            users[getUserByEmail(emailTransform(body.email))]))

\* GET /api/auth/profile: requireAuth, getProfile
getProfile(caller) ==
  /\ ReadsUsers
  /\ res' = IF requireAuth(caller) # 0
            THEN Reply("getProfile", requireAuth(caller), 0)
            ELSE IF getUserById(caller.userId) = 0
            THEN Reply("getProfile", 404, 0)
            ELSE WithData(Reply("getProfile", 200, 0),
                          safeUser(users[getUserById(caller.userId)]))

\* POST /api/auth/refresh: requireAuth, refreshToken
refreshToken(caller) ==
  /\ ReadsUsers
  /\ res' = IF requireAuth(caller) # 0
            THEN Reply("refreshToken", requireAuth(caller), 0)
            ELSE IF getUserById(caller.userId) = 0
            THEN Reply("refreshToken", 404, 0)
            ELSE WithData(Reply("refreshToken", 200, 0),
                          createAuthResponse(users[getUserById(caller.userId)]))

\* the Authorization headers of the requests: none, a token jwt.verify
\* rejects, and the tokens generateToken signed for the users of the table
UserCallers ==
  { [token |-> "missing", userId |-> NotAUuid, role |-> "none"],
    [token |-> "malformed", userId |-> NotAUuid, role |-> "none"] }
  \cup { [token |-> "valid", userId |-> users[i].id, role |-> users[i].role] :
           i \in 1..Len(users) }

\* request bodies of POST /api/auth/register and POST /api/users
CreateUserBodies ==
  [name : {"Ana"},
   email : {"ana@example.com", "Ana@Example.com", "bea@example.com",
            "admin@laurabraids.com", "email-invalido"},
   password : {"Password1", "short"},
   role : {undefined}]

\* request bodies of PUT /api/users/:id
UpdateUserBodies ==
  [name : {undefined, "Bea ", "A"},
   email : {undefined, "Ana@Example.com", "bea@example.com"},
   role : {undefined}]

\* the ids a request can name: those of the rows, one that resolves to
\* nothing and one that is not a UUID
UserIds == {users[i].id : i \in 1..Len(users)} \cup {999, NotAUuid}

NextUsers ==
  \/ \E body \in CreateUserBodies : register(body)
  \/ \E body \in CreateUserBodies : createUser(body)
  \/ \E caller \in UserCallers, id \in UserIds, body \in UpdateUserBodies :
        updateUser(caller, id, body)
  \/ \E caller \in UserCallers, id \in UserIds : deleteUser(caller, id)

\* request bodies of POST /api/auth/login
LoginBodies ==
  [email : {"ana@example.com", "Ana@Example.com", "admin@laurabraids.com",
            "email-invalido"},
   password : {"Password1", "Password2", "short"}]

\* the requests that answer with user data
\* request bodies of POST /api/auth/register and POST /api/users that name
\* a role
CreateUserBodiesWithRole ==
  [name : {"Ana"},
   email : {"ana@example.com", "bea@example.com"},
   password : {"Password1"},
   role : {undefined, "CUSTOMER", "ADMIN", "ROOT"}]

\* request bodies of PUT /api/users/:id that name a role
UpdateUserBodiesWithRole ==
  [name : {undefined, "Bea "},
   email : {undefined},
   role : {undefined, "ADMIN", "ROOT"}]

\* the callers without the token of an administrator
NotAdministrators == {caller \in UserCallers : caller.role # "ADMIN"}

\* the requests open to callers who hold no token of an administrator
NextRoles ==
  \/ \E body \in CreateUserBodiesWithRole : register(body)
  \/ \E body \in CreateUserBodiesWithRole : createUser(body)
  \/ \E caller \in NotAdministrators, id \in UserIds,
        body \in UpdateUserBodiesWithRole :
        updateUser(caller, id, body)

NextUserData ==
  \/ \E body \in CreateUserBodies : register(body)
  \/ \E body \in CreateUserBodies : createUser(body)
  \/ \E caller \in UserCallers, id \in UserIds, body \in UpdateUserBodies :
        updateUser(caller, id, body)
  \/ \E caller \in UserCallers : getUsers(caller)
  \/ \E caller \in UserCallers, id \in UserIds : getUserByIdRequest(caller, id)
  \/ \E body \in LoginBodies : login(body)
  \/ \E caller \in UserCallers : getProfile(caller)
  \/ \E caller \in UserCallers : refreshToken(caller)

----------------------------------------------------------------------------
(* Reviews: src/src/controllers/reviews.controller.ts over the array       *)
(* reviews, routes reviews.routes.ts.  No validation middleware stands in  *)
(* front of the handlers, so the fields of a body are any JSON values;     *)
(* they are written as their JSON text.                                    *)

\* typeof v
typeof(v) ==
  CASE v = undefined -> "undefined"
    [] v \in {"0", "1", "3", "4", "4.5", "5", "6"} -> "number"
    [] v \in {"true", "false"} -> "boolean"
    [] v \in {"[\"user-9\"]"} -> "object"
    [] OTHER -> "string"

\* !v
Not(v) == v \in {undefined, "0", "\"\"", "false"}

\* ten times the number a JSON number literal denotes
Tenths(v) ==
  CASE v = "0" -> 0
    [] v = "1" -> 10
    [] v = "3" -> 30
    [] v = "4" -> 40
    [] v = "4.5" -> 45
    [] v = "5" -> 50
    [] v = "6" -> 60

\* stored === incoming, incoming a value of the body of the request being
\* served: primitives are compared by value, and an array that
\* express.json() has just built is identical to no stored value
StrictEquals(stored, incoming) == typeof(incoming) # "object" /\ stored = incoming

\* typeof rating !== 'number' || rating < 1 || rating > 5 ||
\* !Number.isInteger(rating)
invalidRating(rating) ==
  \/ typeof(rating) # "number"
  \/ Tenths(rating) < 10
  \/ Tenths(rating) > 50
  \/ Tenths(rating) % 10 # 0

\* Object.values(ReviewableType)
ReviewableType == {"\"STYLIST\"", "\"PRODUCT\"", "\"STYLE\""}

initialReviews ==
  << [id |-> 201, user_id |-> "\"user-1\"", rating |-> "5",
      comment |-> "\"Excelente trabajo!\"", reviewable_id |-> "\"stylist-1\"",
      reviewable_type |-> "\"STYLIST\"", is_verified |-> "true"],
     [id |-> 202, user_id |-> "\"user-2\"", rating |-> "4",
      comment |-> "\"Muy buena calidad\"", reviewable_id |-> "\"product-1\"",
      reviewable_type |-> "\"PRODUCT\"", is_verified |-> "true"],
     [id |-> 203, user_id |-> "\"user-3\"", rating |-> "5",
      comment |-> "\"Mi estilo favorito\"", reviewable_id |-> "\"style-2\"",
      reviewable_type |-> "\"STYLE\"", is_verified |-> "true"],
     [id |-> 204, user_id |-> "\"user-4\"", rating |-> "3",
      comment |-> "\"Buen servicio\"", reviewable_id |-> "\"stylist-2\"",
      reviewable_type |-> "\"STYLIST\"", is_verified |-> "false"] >>

\* reviews.findIndex(r => r.id === id), 0 for -1
FindReviewIndex(id) ==
  IF \E i \in 1..Len(reviews) : reviews[i].id = id
  THEN CHOOSE i \in 1..Len(reviews) : reviews[i].id = id
  ELSE 0

\* the find of createReview: some review has the user_id, reviewable_id and
\* reviewable_type of the body
existingReview(body) ==
  \E i \in 1..Len(reviews) :
     /\ StrictEquals(reviews[i].user_id, body.user_id)
     /\ StrictEquals(reviews[i].reviewable_id, body.reviewable_id)
     /\ StrictEquals(reviews[i].reviewable_type, body.reviewable_type)

\* POST /api/reviews
createReview(body) ==
  /\ nextId < MaxReviewsCreated
  /\ UNCHANGED <<now, appointments, users, categories, orders, order_items,
                 styles, products, stylists, braids, braidIds, tasks, mw>>
  /\ IF \/ Not(body.user_id) \/ Not(body.rating) \/ Not(body.comment)
        \/ Not(body.reviewable_id) \/ Not(body.reviewable_type)
     THEN /\ res' = Reply("createReview", 400, 0)
          /\ UNCHANGED <<reviews, nextId>>
     ELSE IF invalidRating(body.rating)
     THEN /\ res' = Reply("createReview", 400, 0)
          /\ UNCHANGED <<reviews, nextId>>
     ELSE IF body.reviewable_type \notin ReviewableType
     THEN /\ res' = Reply("createReview", 400, 0)
          /\ UNCHANGED <<reviews, nextId>>
     ELSE IF existingReview(body)
     THEN /\ res' = Reply("createReview", 409, 0)
          /\ UNCHANGED <<reviews, nextId>>
     ELSE /\ reviews' = Append(reviews,
                          [id |-> uuidv4, user_id |-> body.user_id,
                           rating |-> body.rating, comment |-> body.comment,
                           reviewable_id |-> body.reviewable_id,
                           reviewable_type |-> body.reviewable_type,
                           is_verified |-> "false"])
          /\ nextId' = nextId + 1
          /\ res' = Reply("createReview", 201, 1)

\* PUT /api/reviews/:id
\* the review updateReview stores in place of the current one
mergedReview(currentReview, body) ==
  [currentReview EXCEPT
     !.rating = IF body.rating # undefined THEN body.rating ELSE @,
     !.comment = IF Not(body.comment) THEN @ ELSE body.comment,
     !.is_verified = IF body.is_verified # undefined
                     THEN body.is_verified ELSE @]

updateReview(id, body) ==
  LET reviewIndex == FindReviewIndex(id) IN
  /\ UNCHANGED <<now, nextId, appointments, users, categories, orders,
                 order_items, styles, products, stylists, braids, braidIds,
                 tasks, mw>>
  /\ IF reviewIndex = 0
     THEN /\ res' = Reply("updateReview", 404, 0)
          /\ UNCHANGED reviews
     ELSE IF body.rating # undefined /\ invalidRating(body.rating)
     THEN /\ res' = Reply("updateReview", 400, 0)
          /\ UNCHANGED reviews
     ELSE IF body.is_verified # undefined /\ typeof(body.is_verified) # "boolean"
     THEN /\ res' = Reply("updateReview", 400, 0)
          /\ UNCHANGED reviews
     ELSE /\ reviews' =
               [reviews EXCEPT ![reviewIndex] =
                  mergedReview(reviews[reviewIndex], body)]
          /\ res' = Reply("updateReview", 200, 1)

\* DELETE /api/reviews/:id
deleteReview(id) ==
  LET reviewIndex == FindReviewIndex(id) IN
  /\ UNCHANGED <<now, nextId, appointments, users, categories, orders,
                 order_items, styles, products, stylists, braids, braidIds,
                 tasks, mw>>
  /\ IF reviewIndex = 0
     THEN /\ res' = Reply("deleteReview", 404, 0)
          /\ UNCHANGED reviews
     ELSE /\ reviews' = Splice(reviews, reviewIndex)
          /\ res' = Reply("deleteReview", 204, 1)

\* request bodies of POST /api/reviews the model sends
CreateReviewBodies ==
  [user_id : {undefined, "\"user-1\"", "\"user-9\"", "[\"user-9\"]"},
   rating : {"5", "4.5", "\"5\""},
   comment : {"\"Muy bien\""},
   reviewable_id : {"\"stylist-1\""},
   reviewable_type : {"\"STYLIST\"", "\"BOGUS\""}]

\* request bodies of PUT /api/reviews/:id the model sends
UpdateReviewBodies ==
  [rating : {undefined, "1", "6"},
   comment : {undefined, "\"Muy bien\""},
   is_verified : {undefined, "true", "\"yes\""},
   user_id : {undefined, "\"user-9\""}]

\* request bodies of PUT /api/reviews/:id that pass the handler's checks
ResubmitReviewBodies ==
  [rating : {undefined, "1"},
   comment : {undefined, "\"Muy bien\""},
   is_verified : {undefined},
   user_id : {undefined}]

\* the ids a request can name: the first review, those uuidv4 hands out and
\* one that resolves to nothing
ReviewIds == {201, 999} \cup 1..MaxReviewsCreated

NextReviews ==
  \/ \E body \in CreateReviewBodies : createReview(body)
  \/ \E id \in ReviewIds, body \in UpdateReviewBodies : updateReview(id, body)
  \/ \E id \in ReviewIds : deleteReview(id)

----------------------------------------------------------------------------
(* Categories: schemas src/schemas/categories.schema.ts, data layer        *)
(* src/src/data/categories.database.ts over table categories, controller   *)
(* src/src/controllers/products.controller.ts, routes categories.routes.ts *)

\* name.length and name.trim() of the names of the requests; all are
\* letters and spaces
CategoryNameTexts ==
  [text |-> <<"Modernas", "modernas", " Nuevas ", "Festivas", "Protectoras", "X">>,
   length |-> <<8, 8, 8, 8, 11, 1>>,
   trim |-> <<"Modernas", "modernas", "Nuevas", "Festivas", "Protectoras", "X">>]

CategoryNameIndex(name) ==
  CHOOSE i \in 1..Len(CategoryNameTexts.text) : CategoryNameTexts.text[i] = name

categoryNameSchema(field, name) ==
  IF CategoryNameTexts.length[CategoryNameIndex(name)] < 2
  THEN issue(field, "El nombre de la categoría debe tener al menos 2 caracteres")
  ELSE IF CategoryNameTexts.length[CategoryNameIndex(name)] > 50
  THEN issue(field, "El nombre de la categoría no puede exceder 50 caracteres")
  ELSE <<>>

\* the value categoryNameSchema hands on: the trimmed name
categoryNameTransform(name) == CategoryNameTexts.trim[CategoryNameIndex(name)]

createCategorySchema(body) == categoryNameSchema("name", body.name)

\* the body a handler behind validateBody(createCategorySchema) reads
createCategoryParsed(body) ==
  [body EXCEPT !.name = categoryNameTransform(body.name)]

\* updateCategorySchema: the optional fields, then
\* Object.keys(data).length > 0
updateCategorySchema(body) ==
  (IF body.name = undefined THEN <<>> ELSE categoryNameSchema("name", body.name))
  \o (IF \A k \in DOMAIN body : body[k] = undefined
      THEN issue("", "Debe proporcionar al menos un campo para actualizar")
      ELSE <<>>)

\* the body a handler behind validateBody(updateCategorySchema) reads
updateCategoryParsed(body) ==
  [body EXCEPT !.name = IF body.name = undefined THEN undefined
                        ELSE categoryNameTransform(body.name)]

categoryParamsSchema(id) == uuidSchema("id", id)

\* the rows of table categories: the seeded categories
seedCategories ==
  << [id |-> 301, name |-> "Protectoras",
      description |-> "Estilos que protegen el cabello natural",
      display_order |-> 1, is_active |-> TRUE],
     [id |-> 302, name |-> "Clásicas",
      description |-> "Trenzas tradicionales y atemporales",
      display_order |-> 2, is_active |-> TRUE],
     [id |-> 303, name |-> "Modernas",
      description |-> "Estilos contemporáneos y de tendencia",
      display_order |-> 3, is_active |-> TRUE],
     [id |-> 304, name |-> "Extensiones",
      description |-> "Estilos con cabello adicional",
      display_order |-> 4, is_active |-> TRUE],
     [id |-> 305, name |-> "Especiales",
      description |-> "Ocasiones especiales y eventos",
      display_order |-> 5, is_active |-> TRUE] >>

\* UNIQUE of column name of table categories: a row other than row i holds
\* this name, and the statement fails with ER_DUP_ENTRY
DuplicateName(name, i) ==
  \E j \in 1..Len(categories) :
     j # i /\ utf8mb4_unicode_ci(categories[j].name) = utf8mb4_unicode_ci(name)

\* getCategoryById: position of the row with this id, 0 for null
getCategoryById(id) ==
  IF \E i \in 1..Len(categories) : categories[i].id = id
  THEN CHOOSE i \in 1..Len(categories) : categories[i].id = id
  ELSE 0

\* a getCategoryByName that leaves out the categories that are not active
getCategoryByName_ActiveOnly(name) ==
  IF \E i \in 1..Len(categories) :
        /\ utf8mb4_unicode_ci(categories[i].name) = utf8mb4_unicode_ci(name)
        /\ categories[i].is_active
  THEN CHOOSE i \in 1..Len(categories) :
         /\ utf8mb4_unicode_ci(categories[i].name) = utf8mb4_unicode_ci(name)
         /\ categories[i].is_active
  ELSE 0

\* getCategoryByName: position of the row of SELECT ... WHERE name = ?, 0
\* for null
getCategoryByName(name) ==
  IF \E i \in 1..Len(categories) :
        utf8mb4_unicode_ci(categories[i].name) = utf8mb4_unicode_ci(name)
  THEN CHOOSE i \in 1..Len(categories) :
         utf8mb4_unicode_ci(categories[i].name) = utf8mb4_unicode_ci(name)
  ELSE 0

\* addCategory: the table after the INSERT, or that it threw
addCategory(categoryData) ==
  IF DuplicateName(categoryData.name, 0)
  THEN [categories |-> categories, threw |-> TRUE, writes |-> 0]
  ELSE [categories |->
          Append(categories,
                 [id |-> uuidv4, name |-> categoryData.name,
                  description |-> IF Falsy(categoryData.description)
                                  THEN null ELSE categoryData.description,
                  display_order |-> 0, is_active |-> TRUE]),
        threw |-> FALSE, writes |-> 1]

\* categories.database updateCategory: null without a statement when no
\* column is set, else the UPDATE of the row and what getCategoryById then
\* returns
updateCategoryData(id, updates) ==
  IF \A k \in DOMAIN updates : updates[k] = undefined
  THEN [categories |-> categories, threw |-> FALSE, writes |-> 0, found |-> FALSE]
  ELSE IF updates.name # undefined /\ DuplicateName(updates.name, getCategoryById(id))
  THEN [categories |-> categories, threw |-> TRUE, writes |-> 0, found |-> FALSE]
  ELSE [categories |->
          [categories EXCEPT ![getCategoryById(id)] =
             [@ EXCEPT
                !.name = IF updates.name # undefined THEN updates.name ELSE @,
                !.description = IF updates.description # undefined
                                THEN updates.description ELSE @]],
        threw |-> FALSE, writes |-> 1, found |-> TRUE]

\* categories.database deleteCategory: the soft delete of the active row
deleteCategoryData(id) ==
  IF categories[getCategoryById(id)].is_active
  THEN [categories |-> [categories EXCEPT ![getCategoryById(id)].is_active = FALSE],
        affectedRows |-> 1]
  ELSE [categories |-> categories, affectedRows |-> 0]

\* the end of createCategory once addCategory went as r: 201, or the 500 of
\* the catch block
createCategoryResponse(r) ==
  /\ categories' = r.categories
  /\ nextId' = nextId + 1
  /\ res' = Reply("createCategory", IF r.threw THEN 500 ELSE 201, r.writes)

\* POST /api/categories: requireAdmin, validateBody(createCategorySchema),
\* createCategory
createCategory(caller, body) ==
  /\ nextId < MaxCategoriesCreated
  /\ UNCHANGED <<now, appointments, reviews, users, orders, order_items,
                 styles, products, stylists, braids, braidIds, tasks, mw>>
  /\ IF requireAdmin(caller) # 0
     THEN /\ res' = Reply("createCategory", requireAdmin(caller), 0)
          /\ UNCHANGED <<categories, nextId>>
     ELSE IF createCategorySchema(body) # <<>>
     THEN /\ res' = ValidationReply("createCategory", createCategorySchema(body))
          /\ UNCHANGED <<categories, nextId>>
     ELSE IF getCategoryByName(createCategoryParsed(body).name) # 0
     THEN /\ res' = Reply("createCategory", 400, 0)
          /\ UNCHANGED <<categories, nextId>>
     ELSE createCategoryResponse(addCategory(createCategoryParsed(body)))

\* the end of updateCategory once updateCategoryData went as r: 200, the
\* 400 for no changes, or the 500 of the catch block
updateCategoryResponse(r) ==
  /\ categories' = r.categories
  /\ res' = Reply("updateCategory",
                  IF r.threw THEN 500 ELSE IF r.found THEN 200 ELSE 400,
                  r.writes)

\* PUT /api/categories/:id: requireAdmin,
\* validateParams(categoryParamsSchema), validateBody(updateCategorySchema),
\* updateCategory
updateCategory(caller, id, body) ==
  /\ UNCHANGED <<now, nextId, appointments, reviews, users, orders,
                 order_items, styles, products, stylists, braids, braidIds,
                 tasks, mw>>
  /\ IF requireAdmin(caller) # 0
     THEN /\ res' = Reply("updateCategory", requireAdmin(caller), 0)
          /\ UNCHANGED categories
     ELSE IF categoryParamsSchema(id) # <<>>
     THEN /\ res' = ValidationReply("updateCategory", categoryParamsSchema(id))
          /\ UNCHANGED categories
     ELSE IF updateCategorySchema(body) # <<>>
     THEN /\ res' = ValidationReply("updateCategory", updateCategorySchema(body))
          /\ UNCHANGED categories
     ELSE IF getCategoryById(id) = 0
     THEN /\ res' = Reply("updateCategory", 404, 0)
          /\ UNCHANGED categories
     ELSE IF /\ ~Falsy(updateCategoryParsed(body).name)
             /\ updateCategoryParsed(body).name # categories[getCategoryById(id)].name
             /\ getCategoryByName(updateCategoryParsed(body).name) # 0
     THEN /\ res' = Reply("updateCategory", 400, 0)
          /\ UNCHANGED categories
     ELSE updateCategoryResponse(updateCategoryData(id, updateCategoryParsed(body)))

\* DELETE /api/categories/:id: requireAdmin,
\* validateParams(categoryParamsSchema), deleteCategory
deleteCategory(caller, id) ==
  /\ UNCHANGED <<now, nextId, appointments, reviews, users, orders,
                 order_items, styles, products, stylists, braids, braidIds,
                 tasks, mw>>
  /\ IF requireAdmin(caller) # 0
     THEN /\ res' = Reply("deleteCategory", requireAdmin(caller), 0)
          /\ UNCHANGED categories
     ELSE IF categoryParamsSchema(id) # <<>>
     THEN /\ res' = ValidationReply("deleteCategory", categoryParamsSchema(id))
          /\ UNCHANGED categories
     ELSE IF getCategoryById(id) = 0
     THEN /\ res' = Reply("deleteCategory", 404, 0)
          /\ UNCHANGED categories
     ELSE /\ categories' = deleteCategoryData(id).categories
          /\ res' = Reply("deleteCategory",
                          IF deleteCategoryData(id).affectedRows > 0
                          THEN 200 ELSE 400,
                          deleteCategoryData(id).affectedRows)

\* request bodies of POST /api/categories the model sends
CreateCategoryBodies ==
  [name : {"Modernas", "modernas", " Nuevas ", "Festivas", "X"},
   description : {undefined},
   display_order : {undefined},
   is_active : {undefined}]

\* request bodies of PUT /api/categories/:id the model sends
UpdateCategoryBodies ==
  [name : {undefined, "Modernas", "Festivas", "Protectoras"},
   description : {undefined},
   display_order : {undefined},
   is_active : {undefined}]

\* the ids a request can name: a seeded category, those uuidv4 hands out,
\* one that resolves to nothing and one that is not a UUID
CategoryIds == {303, 999, NotAUuid} \cup 1..MaxCategoriesCreated

\* the Authorization headers of the requests: none, the token of a customer
\* and the token of the administrator
CategoryCallers == {caller \in Callers : caller.userId \in {NotAUuid, 401, 402}}

NextCategories ==
  \/ \E caller \in CategoryCallers, body \in CreateCategoryBodies :
        createCategory(caller, body)
  \/ \E caller \in CategoryCallers, id \in CategoryIds, body \in UpdateCategoryBodies :
        updateCategory(caller, id, body)
  \/ \E caller \in CategoryCallers, id \in CategoryIds : deleteCategory(caller, id)

----------------------------------------------------------------------------
(* Styles: src/src/controllers/styles.controller.ts over the array styles, *)
(* routes styles.routes.ts.  The routes mount the handlers alone, so the   *)
(* Authorization header of a request is never read.                        *)

\* the styles the module starts with
initialStyles ==
  << [id |-> 701, name |-> "Box Braids", photo_url |-> "box-braids.jpg",
      description |-> "seed", category |-> "Largo"],
     [id |-> 702, name |-> "Cornrows", photo_url |-> "cornrows.jpg",
      description |-> "seed", category |-> "Corto"],
     [id |-> 703, name |-> "Fulani Braids", photo_url |-> "fulani-braids.jpg",
      description |-> "seed", category |-> "Clásico"],
     [id |-> 704, name |-> "Knotless Braids", photo_url |-> "knotless-braids.jpg",
      description |-> "seed", category |-> "Largo"],
     [id |-> 705, name |-> "Goddess Braids", photo_url |-> "goddess-braids.jpg",
      description |-> "seed", category |-> "Colorido"] >>

validCategories == {"Largo", "Corto", "Clásico", "Colorido", "Moderno"}

\* styles.findIndex(s => s.id === id), 0 for -1
FindStyleIndex(id) ==
  IF \E i \in 1..Len(styles) : styles[i].id = id
  THEN CHOOSE i \in 1..Len(styles) : styles[i].id = id
  ELSE 0

\* x || y
OrElse(x, y) == IF Falsy(x) THEN y ELSE x

\* POST /api/styles: createStyle
createStyle(caller, body) ==
  /\ nextId < MaxStylesCreated
  /\ UNCHANGED <<now, appointments, reviews, users, categories, orders,
                 order_items, products, stylists, braids, braidIds, tasks,
                 mw>>
  /\ IF Falsy(body.name) \/ Falsy(body.description) \/ Falsy(body.category)
     THEN /\ res' = Reply("createStyle", 400, 0)
          /\ UNCHANGED <<styles, nextId>>
     ELSE IF body.category \notin validCategories
     THEN /\ res' = Reply("createStyle", 400, 0)
          /\ UNCHANGED <<styles, nextId>>
     ELSE /\ styles' = Append(styles,
               [id |-> uuidv4, name |-> body.name,
                photo_url |-> OrElse(body.photo_url, "default-style.jpg"),
                description |-> body.description,
                category |-> body.category])
          /\ nextId' = nextId + 1
          /\ res' = Reply("createStyle", 201, 1)

\* PUT /api/styles/:id: updateStyle
updateStyle(caller, id, body) ==
  LET styleIndex == FindStyleIndex(id) IN
  /\ UNCHANGED <<now, nextId, appointments, reviews, users, categories,
                 orders, order_items, products, stylists, braids, braidIds,
                 tasks, mw>>
  /\ IF styleIndex = 0
     THEN /\ res' = Reply("updateStyle", 404, 0)
          /\ UNCHANGED styles
     ELSE IF ~Falsy(body.category) /\ body.category \notin validCategories
     THEN /\ res' = Reply("updateStyle", 400, 0)
          /\ UNCHANGED styles
     ELSE /\ styles' =
               [styles EXCEPT ![styleIndex] =
                  [id |-> @.id,
                   name |-> OrElse(body.name, @.name),
                   photo_url |-> OrElse(body.photo_url, @.photo_url),
                   description |-> OrElse(body.description, @.description),
                   category |-> OrElse(body.category, @.category)]]
          /\ res' = Reply("updateStyle", 200, 1)

\* DELETE /api/styles/:id: deleteStyle
deleteStyle(caller, id) ==
  LET styleIndex == FindStyleIndex(id) IN
  /\ UNCHANGED <<now, nextId, appointments, reviews, users, categories,
                 orders, order_items, products, stylists, braids, braidIds,
                 tasks, mw>>
  /\ IF styleIndex = 0
     THEN /\ res' = Reply("deleteStyle", 404, 0)
          /\ UNCHANGED styles
     ELSE /\ styles' = Splice(styles, styleIndex)
          /\ res' = Reply("deleteStyle", 204, 1)

\* request bodies of POST /api/styles the model sends
CreateStyleBodies ==
  [name : {undefined, "Twists"},
   photo_url : {undefined},
   description : {"Dos mechones"},
   category : {"Moderno", "Rizado"}]

\* request bodies of PUT /api/styles/:id the model sends
UpdateStyleBodies ==
  [name : {undefined, "Twists"},
   photo_url : {undefined},
   description : {undefined},
   category : {undefined, "Corto", "Rizado"}]

StyleIds == {701, 705, 999}

\* request bodies of PUT /api/styles/:id with fields left out and fields
\* set to the empty string
PartialStyleBodies ==
  [name : {undefined, "Twists", ""},
   photo_url : {undefined, ""},
   description : {undefined},
   category : {undefined, "Corto"}]

\* request bodies of PUT /api/categories/:id with fields left out
PartialCategoryBodies ==
  [name : {undefined, "Festivas"},
   description : {undefined, "Para fiestas", ""},
   display_order : {undefined},
   is_active : {undefined}]

\* partial updates of styles and of categories
NextPartialUpdates ==
  \/ \E caller \in Callers, id \in StyleIds, body \in PartialStyleBodies :
        updateStyle(caller, id, body)
  \/ \E caller \in CategoryCallers, id \in {301, 303, 999},
        body \in PartialCategoryBodies :
        updateCategory(caller, id, body)

\* the requests on the operations documented as for the administrator
\* alone: those of the styles, of the categories and the deletion of a user
NextAdminOnly ==
  \/ \E caller \in Callers, body \in CreateStyleBodies : createStyle(caller, body)
  \/ \E caller \in Callers, id \in StyleIds, body \in UpdateStyleBodies :
        updateStyle(caller, id, body)
  \/ \E caller \in Callers, id \in StyleIds : deleteStyle(caller, id)
  \/ \E caller \in Callers, body \in CreateCategoryBodies :
        createCategory(caller, body)
  \/ \E caller \in Callers, id \in {303, 999} : deleteCategory(caller, id)
  \/ \E caller \in Callers, id \in UserIds : deleteUser(caller, id)

----------------------------------------------------------------------------
(* Braids: controller braids.controller.ts, an array in memory with        *)
(* numeric ids; routes braids.routes.ts mount no middleware                *)

\* the largest id createBraid hands out in the model
MaxBraidId == 4

initialBraids ==
  << [id |-> 1, name |-> "Box Braids", description |-> "seed",
      photo_url |-> "box_braids.jpg", category |-> "Largo", price |-> "150"],
     [id |-> 2, name |-> "Cornrows", description |-> "seed",
      photo_url |-> "cornrows.jpg", category |-> "Corto", price |-> "80"] >>

\* index of the braid with this id, 0 for none (findIndex)
FindBraidIndex(id) ==
  IF \E i \in 1..Len(braids) : braids[i].id = id
  THEN CHOOSE i \in 1..Len(braids) : braids[i].id = id
  ELSE 0

\* Math.max(...braids.map(b => b.id))
MaxBraid == CHOOSE m \in {braids[i].id : i \in 1..Len(braids)} :
              \A i \in 1..Len(braids) : braids[i].id <= m

\* braids.length > 0 ? Math.max(...braids.map(b => b.id)) + 1 : 1
newBraidId == IF Len(braids) > 0 THEN MaxBraid + 1 ELSE 1

\* POST /api/braids: createBraid
createBraid(body) ==
  /\ newBraidId <= MaxBraidId
  /\ UNCHANGED <<now, nextId, appointments, reviews, users, categories,
                 styles, products, stylists, orders, order_items, tasks, mw>>
  /\ IF \/ Falsy(body.name) \/ Falsy(body.description) \/ Falsy(body.category)
        \/ body.price = undefined
     THEN /\ res' = Reply("createBraid", 400, 0)
          /\ UNCHANGED <<braids, braidIds>>
     ELSE /\ braids' = Append(braids,
                 [id |-> newBraidId, name |-> body.name,
                  description |-> body.description,
                  photo_url |-> IF Falsy(body.photo_url) THEN "default.jpg"
                                ELSE body.photo_url,
                  category |-> body.category, price |-> body.price])
          /\ braidIds' = braidIds \cup {newBraidId}
          /\ res' = DataReply("createBraid", 201, <<newBraidId>>)

\* DELETE /api/braids/:id: deleteBraid
deleteBraid(id) ==
  /\ UNCHANGED <<now, nextId, appointments, reviews, users, categories,
                 styles, products, stylists, orders, order_items, tasks, mw,
                 braidIds>>
  /\ IF FindBraidIndex(id) = 0
     THEN /\ res' = Reply("deleteBraid", 404, 0)
          /\ UNCHANGED braids
     ELSE /\ braids' = Splice(braids, FindBraidIndex(id))
          /\ res' = Reply("deleteBraid", 204, 1)

\* request bodies of POST /api/braids the model sends
CreateBraidBodies ==
  [name : {undefined, "Twists", "Fulani"},
   description : {"Trenzas"},
   photo_url : {undefined},
   category : {"Largo"},
   price : {undefined, "120"}]

NextBraids ==
  \/ \E body \in CreateBraidBodies : createBraid(body)
  \/ \E id \in 1..MaxBraidId : deleteBraid(id)

----------------------------------------------------------------------------
(* Products and stylists: data layer src/data/products.database.ts and     *)
(* stylists.database.ts, controllers products.controller.ts and            *)
(* stylists.controller.ts; the listings of categories and users            *)

\* rows of table products
seedProducts ==
  << [id |-> 501, name |-> "Aceite", stock_quantity |-> 5, is_active |-> TRUE],
     [id |-> 502, name |-> "Gel", stock_quantity |-> 0, is_active |-> TRUE] >>

\* rows of table stylists
seedStylists ==
  << [id |-> 801, name |-> "Laura", is_featured |-> TRUE, is_available |-> TRUE],
     [id |-> 802, name |-> "Maria", is_featured |-> FALSE, is_available |-> TRUE] >>

\* products.database getProducts: every row of the table
getProductsData == products

\* products.database deleteProduct: the soft delete of the active row
deleteProductData(id) ==
  IF \E i \in 1..Len(products) : products[i].id = id /\ products[i].is_active
  THEN [products |-> [i \in 1..Len(products) |->
                        IF products[i].id = id
                        THEN [products[i] EXCEPT !.is_active = FALSE]
                        ELSE products[i]],
        affectedRows |-> 1]
  ELSE [products |-> products, affectedRows |-> 0]

\* stylists.database getStylists: every row of the table
getStylistsData == stylists

\* stylists.database deleteStylist: DELETE FROM stylists WHERE id = ?
deleteStylistData(id) ==
  [stylists |-> SelectSeq(stylists, LAMBDA s : s.id # id),
   affectedRows |-> Cardinality({i \in 1..Len(stylists) : stylists[i].id = id})]

\* categories.database getCategories: the rows WHERE is_active = true
getCategoriesData == SelectSeq(categories, LAMBDA c : c.is_active)

\* GET /api/products: getProducts, with the query ?active=
getProducts(active) ==
  /\ UNCHANGED <<now, nextId, appointments, reviews, users, categories,
                 styles, products, stylists, orders, order_items, braids,
                 braidIds, tasks, mw>>
  /\ res' = WithData(Reply("getProducts", 200, 0),
                     IF active = "true"
                     THEN SelectSeq(getProductsData, LAMBDA p : p.is_active)
                     ELSE getProductsData)

\* DELETE /api/products/:id: deleteProduct
deleteProduct(id) ==
  /\ UNCHANGED <<now, nextId, appointments, reviews, users, categories,
                 styles, stylists, orders, order_items, braids, braidIds,
                 tasks, mw>>
  /\ products' = deleteProductData(id).products
  /\ res' = Reply("deleteProduct",
                  IF deleteProductData(id).affectedRows > 0 THEN 204 ELSE 404,
                  deleteProductData(id).affectedRows)

stylistParamsSchema(id) == uuidSchema("id", id)

\* GET /api/stylists: getStylists, with the query ?featured=
getStylists(featured) ==
  /\ UNCHANGED <<now, nextId, appointments, reviews, users, categories,
                 styles, products, stylists, orders, order_items, braids,
                 braidIds, tasks, mw>>
  /\ res' = WithData(Reply("getStylists", 200, 0),
                     IF featured = "true"
                     THEN SelectSeq(getStylistsData, LAMBDA s : s.is_featured)
                     ELSE getStylistsData)

\* DELETE /api/stylists/:id: validateParams(stylistParamsSchema),
\* deleteStylist
deleteStylist(id) ==
  /\ UNCHANGED <<now, nextId, appointments, reviews, users, categories,
                 styles, products, orders, order_items, braids, braidIds,
                 tasks, mw>>
  /\ IF stylistParamsSchema(id) # <<>>
     THEN /\ res' = ValidationReply("deleteStylist", stylistParamsSchema(id))
          /\ UNCHANGED stylists
     ELSE /\ stylists' = deleteStylistData(id).stylists
          /\ res' = Reply("deleteStylist",
                          IF deleteStylistData(id).affectedRows > 0 THEN 204 ELSE 404,
                          deleteStylistData(id).affectedRows)

\* GET /api/categories: getCategories
getCategories ==
  /\ UNCHANGED <<now, nextId, appointments, reviews, users, categories,
                 styles, products, stylists, orders, order_items, braids,
                 braidIds, tasks, mw>>
  /\ res' = WithData(Reply("getCategories", 200, 0), getCategoriesData)

\* the deletions of categories, users, products and stylists, and the
\* default listings
NextDeletes ==
  \/ \E caller \in CategoryCallers, id \in {301, 303, 999} :
        deleteCategory(caller, id)
  \/ \E caller \in UserCallers, id \in UserIds : deleteUser(caller, id)
  \/ \E id \in {501, 502, 999} : deleteProduct(id)
  \/ \E id \in {801, 999, NotAUuid} : deleteStylist(id)
  \/ getCategories
  \/ \E caller \in UserCallers : getUsers(caller)
  \/ \E active \in {undefined, "true"} : getProducts(active)
  \/ \E featured \in {undefined, "true"} : getStylists(featured)

----------------------------------------------------------------------------
(* Initial state and specifications *)

NoRes ==
  [op |-> "none", status |-> 0, sends |-> 0, writes |-> 0, threw |-> FALSE,
   errors |-> <<>>]

\* no request has passed a validation middleware
NoRequest ==
  [schemas |-> [body |-> NoSchema, params |-> NoSchema, query |-> NoSchema],
   raw |-> [body |-> <<>>, params |-> <<>>, query |-> <<>>],
   req |-> [body |-> <<>>, params |-> <<>>, query |-> <<>>],
   next |-> FALSE, envelope |-> {}]


\* the rows of table users: the seeded administrator
seedUsers ==
  << [id |-> 401, name |-> "Administrador", email |-> "admin@laurabraids.com",
      password_hash |-> "hash", role |-> "ADMIN", is_active |-> TRUE] >>

Init ==
  /\ now = 3
  /\ nextId = 0
  /\ appointments = initialAppointments
  /\ reviews = initialReviews
  /\ users = seedUsers
  /\ categories = seedCategories
  /\ tasks = NoTasks
  /\ braidIds = {1, 2}
  /\ braids = initialBraids
  /\ stylists = seedStylists
  /\ products = seedProducts
  /\ styles = initialStyles
  /\ orders = <<>>
  /\ order_items = <<>>
  /\ mw = NoRequest
  /\ res = NoRes

SpecAppt == Init /\ [][NextAppt]_vars

SpecValidate == Init /\ [][NextValidate]_vars

SpecUsers == Init /\ [][NextUsers]_vars

SpecReviews == Init /\ [][NextReviews]_vars

SpecAdminOnly == Init /\ [][NextAdminOnly]_vars

SpecRoles == Init /\ [][NextRoles]_vars

SpecUserData == Init /\ [][NextUserData]_vars

\* appointment requests on any day of the week
NextApptDates ==
  \/ \E body \in CreateAppointmentBodiesByDay : createAppointment(body)
  \/ \E id \in AppointmentIds, body \in UpdateAppointmentBodiesByDay :
        updateAppointment(id, body)
  \/ Tick

SpecApptDates == Init /\ [][NextApptDates]_vars

SpecPartialUpdates == Init /\ [][NextPartialUpdates]_vars

\* the updates of appointments, reviews and categories, each of which can be
\* sent again, as the clock advances
NextResubmit ==
  \/ \E id \in {101, 999}, body \in UpdateAppointmentBodiesWithNotes :
        updateAppointment(id, body)
  \/ \E id \in {201, 999}, body \in ResubmitReviewBodies :
        updateReview(id, body)
  \/ \E caller \in Administrators, id \in {301, 999},
        body \in PartialCategoryBodies :
        updateCategory(caller, id, body)
  \/ Tick

SpecResubmit == Init /\ [][NextResubmit]_vars

SpecBraids == Init /\ [][NextBraids]_vars

\* two appointment requests in flight, handled in either order as the
\* clock advances
NextConcurrentAppointments ==
  \/ \E r \in InFlight, body \in ConcurrentAppointmentBodies :
        receiveCreateAppointment(r, body)
  \/ \E r \in InFlight : runCreateAppointment(r)
  \/ Tick

SpecConcurrentAppointments ==
  Init /\ [][NextConcurrentAppointments]_vars

SpecConcurrentRegister == Init /\ [][NextConcurrentRegister]_vars

SpecCategories == Init /\ [][NextCategories]_vars

\* the rows two registered customers add to table users
registeredCustomers ==
  << [id |-> 402, name |-> "Ana", email |-> "ana@example.com",
      password_hash |-> "hash", role |-> "CUSTOMER", is_active |-> TRUE],
     [id |-> 403, name |-> "Bea", email |-> "bea@example.com",
      password_hash |-> "hash", role |-> "CUSTOMER", is_active |-> TRUE] >>

\* the state in which two customers have registered
InitOrders ==
  /\ now = 3
  /\ nextId = 0
  /\ appointments = initialAppointments
  /\ reviews = initialReviews
  /\ users = seedUsers \o registeredCustomers
  /\ categories = seedCategories
  /\ tasks = NoTasks
  /\ braidIds = {1, 2}
  /\ braids = initialBraids
  /\ stylists = seedStylists
  /\ products = seedProducts
  /\ styles = initialStyles
  /\ orders = <<>>
  /\ order_items = <<>>
  /\ mw = NoRequest
  /\ res = NoRes

SpecOrders == InitOrders /\ [][NextOrders]_vars

SpecDeletes == InitOrders /\ [][NextDeletes]_vars

\* the rows the order a customer placed at instant 3, two units of product
\* 501 at 25.00, left in tables orders and order_items
placedOrder ==
  [orders |->
     << [id |-> 601, customer_id |-> 402, order_number |-> 3,
         subtotal |-> 5000, tax_amount |-> 500, shipping_amount |-> 1000,
         total_amount |-> 6500, status |-> "PENDING",
         shipping_address |-> null, billing_address |-> null,
         payment_method |-> null, payment_status |-> "PENDING"] >>,
   order_items |->
     << [id |-> 602, order_id |-> 601, product_id |-> 501, quantity |-> 2,
         unit_price |-> 2500, total_price |-> 5000] >>]

\* the state in which two customers have registered and one has placed an
\* order
InitPlaced ==
  /\ now = 3
  /\ nextId = 0
  /\ appointments = initialAppointments
  /\ reviews = initialReviews
  /\ users = seedUsers \o registeredCustomers
  /\ categories = seedCategories
  /\ tasks = NoTasks
  /\ braidIds = {1, 2}
  /\ braids = initialBraids
  /\ stylists = seedStylists
  /\ products = seedProducts
  /\ styles = initialStyles
  /\ orders = placedOrder.orders
  /\ order_items = placedOrder.order_items
  /\ mw = NoRequest
  /\ res = NoRes

\* request bodies of POST /api/orders that carry amounts of their own
PricedItemLists ==
  { << [product_id |-> 501, quantity |-> 2, unit_price |-> 25990],
       [product_id |-> 502, quantity |-> 1, unit_price |-> 15500] >>,
    << [product_id |-> 501, quantity |-> 1, unit_price |-> 10999] >> }

CreateOrderBodiesWithAmounts ==
  [customer_id : {402},
   items : PricedItemLists,
   shipping_address : {undefined},
   billing_address : {undefined},
   payment_method : {undefined},
   subtotal : {undefined, "0.01"},
   total_amount : {undefined, "0.01"}]

\* request bodies of PUT /api/orders/:id that carry amounts of their own
UpdateOrderBodiesWithAmounts ==
  [status : {undefined, "CONFIRMED"},
   shipping_address : {undefined, "12 Main Street, Springfield "},
   billing_address : {undefined},
   payment_method : {undefined},
   payment_status : {undefined},
   subtotal : {undefined},
   total_amount : {undefined, "0.01"}]

\* the callers of the requests that carry amounts: no token, the
\* administrator and the customer of the orders
AmountCallers == {caller \in Callers : caller.token # "malformed" /\ caller.userId # 403}

\* the requests on orders, with bodies that carry amounts of their own
NextOrderAmounts ==
  \/ \E caller \in AmountCallers, body \in CreateOrderBodiesWithAmounts :
        createOrder(caller, body)
  \/ \E caller \in AmountCallers, id \in OrderIds, body \in UpdateOrderBodiesWithAmounts :
        updateOrder(caller, id, body)
  \/ \E caller \in AmountCallers, id \in OrderIds : cancelOrder(caller, id)
  \/ Tick

SpecOrderAmounts == InitPlaced /\ [][NextOrderAmounts]_vars

\* request bodies of POST /api/orders in the name of either customer
CreateOrderBodiesByCustomer ==
  [customer_id : {402, 403},
   items : {<< [product_id |-> 501, quantity |-> 2, unit_price |-> 25000] >>},
   shipping_address : {undefined},
   billing_address : {undefined},
   payment_method : {undefined}]

\* the requests that read orders, and those that create them
NextOrderReads ==
  \/ \E caller \in Callers, body \in CreateOrderBodiesByCustomer :
        createOrder(caller, body)
  \/ \E caller \in Callers, customerId \in {402, 403, NotAUuid} :
        getCustomerOrders(caller, customerId)
  \/ \E caller \in Callers, id \in OrderIds : getOrderById(caller, id)
  \/ \E caller \in Callers, id \in OrderIds : getOrderWithItems(caller, id)
  \/ Tick

SpecOrderReads == InitPlaced /\ [][NextOrderReads]_vars

\* order creation as the clock moves on
NextOrderNumbers ==
  \/ \E caller \in Callers, body \in CreateOrderBodies : createOrder(caller, body)
  \/ Tick
  \/ Later

SpecOrderNumbers == InitPlaced /\ [][NextOrderNumbers]_vars

----------------------------------------------------------------------------
(* Appointment claims *)

\* appointments i and j are two SCHEDULED bookings of one stylist at one instant
DoubleBooked(i, j) ==
  /\ i # j
  /\ appointments[i].status = "SCHEDULED"
  /\ appointments[j].status = "SCHEDULED"
  /\ appointments[i].stylist_id = appointments[j].stylist_id
  /\ appointments[i].appointment_date = appointments[j].appointment_date

\* C1: after any sequence of appointment create, update and delete requests,
\* at most one SCHEDULED appointment exists per stylist and exact date-time.
C1_AtMostOneScheduledPerSlot ==
  \A i, j \in 1..Len(appointments) : ~DoubleBooked(i, j)

\* a create body that passes the checks made before the availability check
ValidCreateAppointment(body) ==
  /\ body.user_id # undefined /\ body.stylist_id # undefined
  /\ body.style_id # undefined /\ body.appointment_date # undefined
  /\ NewDate(body.appointment_date) # NaN
  /\ NewDate(body.appointment_date) > now

\* C2: a create request with otherwise valid input is answered 409, and adds
\* nothing, exactly when a SCHEDULED appointment of the same stylist at the
\* identical instant is stored; appointments at another time or with another
\* status never cause the 409.
C2_ConflictExactlyOnScheduledSameSlot ==
  [][\A body \in CreateAppointmentBodies :
       (createAppointment(body) /\ ValidCreateAppointment(body)) =>
          /\ (res'.status = 409) <=>
                (\E i \in 1..Len(appointments) :
                    /\ appointments[i].stylist_id = body.stylist_id
                    /\ appointments[i].appointment_date
                          = NewDate(body.appointment_date)
                    /\ appointments[i].status = "SCHEDULED")
          /\ (res'.status = 409) => (appointments' = appointments)
          /\ (res'.status # 409) =>
                (res'.status = 201 /\ Len(appointments') = Len(appointments) + 1)
    ]_vars

\* a create was refused with 409 while the same stylist also holds a
\* non-SCHEDULED appointment and an appointment at another time
C2_Witness ==
  /\ res.op = "createAppointment" /\ res.status = 409
  /\ \E i \in 1..Len(appointments) : appointments[i].status # "SCHEDULED"

----------------------------------------------------------------------------
(* Order claims *)

\* the sum of quantity x unit price over the items, in hundredths
RECURSIVE ExactSubtotal(_)
ExactSubtotal(items) ==
  IF items = <<>> THEN 0
  ELSE items[1].quantity * (items[1].unit_price \div 10)
         + ExactSubtotal(Tail(items))

\* C3: every order created from a valid item list is stored with subtotal
\* the sum of quantity x unit price over its items, tax 10% of the subtotal
\* (to the nearest hundredth), shipping 0 when the subtotal is strictly
\* greater than 50.00 and 10.00 otherwise, so 10.00 at exactly 50.00, and
\* total subtotal + tax + shipping.
C3_OrderAmounts ==
  [][\A caller \in Callers, body \in CreateOrderBodies :
       (res'.op = "createOrder" /\ res'.status = 201
          /\ createOrder(caller, body)) =>
          LET o == orders'[Len(orders')] IN
          /\ o.subtotal = ExactSubtotal(body.items)
          /\ 10 * o.tax_amount - o.subtotal \in (0 - 5)..5
          /\ o.shipping_amount = IF o.subtotal > 5000 THEN 0 ELSE 1000
          /\ o.total_amount = o.subtotal + o.tax_amount + o.shipping_amount
    ]_vars

\* the items name one product more than once
HasRepeatedProduct(items) ==
  \E i, j \in 1..Len(items) :
     i # j /\ items[i].product_id = items[j].product_id

Authenticated(caller) == caller.token = "valid"

\* the reasons the controllers give for rejecting an update of order o
UpdateRejected(caller, o, body) ==
  /\ caller.role # "ADMIN"
  /\ \/ caller.userId # o.customer_id
     \/ body.status \notin {undefined, "CANCELLED"}
     \/ o.status # "PENDING"

\* the reasons the controllers give for rejecting a cancel of order o
CancelRejected(caller, o) ==
  \/ caller.role # "ADMIN" /\ caller.userId # o.customer_id
  \/ o.status \in {"CANCELLED", "DELIVERED"}

\* C5: whenever an order update or cancel request is rejected (the caller
\* is neither the owner nor an admin; a non-admin sets a status other than
\* CANCELLED or changes an order that is not PENDING; the order is already
\* CANCELLED or DELIVERED), no mutating store call is executed for the
\* request and the stored order is left unchanged.
C5_RejectedRequestWritesNothing ==
  [][/\ \A caller \in Callers, id \in OrderIds, body \in UpdateOrderBodies :
          ( /\ res'.op = "updateOrder"
            /\ Authenticated(caller) /\ FindOrderIndex(id) # 0
            /\ updateOrderSchema(body) = <<>>
            /\ UpdateRejected(caller, orders[FindOrderIndex(id)], body)
            /\ updateOrder(caller, id, body) )
          => (res'.writes = 0 /\ orders' = orders)
     /\ \A caller \in Callers, id \in OrderIds :
          ( /\ res'.op = "cancelOrder"
            /\ Authenticated(caller) /\ FindOrderIndex(id) # 0
            /\ CancelRejected(caller, orders[FindOrderIndex(id)])
            /\ cancelOrder(caller, id) )
          => (res'.writes = 0 /\ orders' = orders)
    ]_vars

----------------------------------------------------------------------------
(* Validation middleware claims *)

\* the locations of a request
Locations == {"body", "params", "query"}

\* the locations the route of the last request has a schema for
Supplied == {l \in Locations : mw.schemas[l].refine # "absent"}

\* what the schema of location l makes of the last request as it arrived
Parsed(l) == parse(mw.schemas[l], mw.raw[l])

\* C6: a validation middleware invokes the next handler if and only if the
\* schema accepts the value at its target location; on acceptance the
\* handler sees the schema's normalized value in place of the raw input; on
\* rejection the only response is the 400 error envelope {success, message,
\* errors, timestamp} and no later handler runs.
C6_ValidateReplacesOrRejects ==
  res.op \in {"validateBody", "validateParams", "validateQuery"} =>
    \A l \in Supplied :
       /\ mw.next <=> Parsed(l).kind = "ok"
       /\ mw.next => mw.req[l] = Parsed(l).value
       /\ Parsed(l).kind = "ZodError" =>
             /\ res.status = 400 /\ res.sends = 1
             /\ res.errors = Parsed(l).issues
             /\ mw.envelope = ErrorEnvelope
             /\ ~mw.next

\* C7: when body, params and query are validated in one pass, the 400
\* response lists the validation errors of every location that failed, and
\* the next handler is invoked only if every supplied schema accepted its
\* location.
C7_MultipleAccumulatesAndGuards ==
  res.op = "validateMultiple" =>
    /\ \A l \in Supplied :
          Parsed(l).kind = "ZodError" =>
             /\ res.status = 400
             /\ \A i \in 1..Len(Parsed(l).issues) :
                   \E j \in 1..Len(res.errors) : res.errors[j] = Parsed(l).issues[i]
    /\ mw.next => \A l \in Supplied : Parsed(l).kind = "ok"

----------------------------------------------------------------------------
(* User claims *)

\* C8: whatever registrations, user creations, user updates and user
\* deletions have been served, no two rows of table users, active or
\* soft-deleted, hold emails that are equal once case is normalized
C8_NoTwoUsersShareEmail ==
  \A i, j \in 1..Len(users) :
     i # j => EmailTexts.toLowerCase[EmailIndex(users[i].email)]
              # EmailTexts.toLowerCase[EmailIndex(users[j].email)]

\* a registration with the email of a soft-deleted user passed the check of
\* the handler and was stopped by the table
C8_Witness ==
  /\ res.op = "register"
  /\ res.status = 500
  /\ \E i \in 1..Len(users) : ~users[i].is_active

----------------------------------------------------------------------------
(* Review claims *)

\* the fields of a create body pass the checks of createReview that come
\* before the search for an existing review
ValidCreateReview(body) ==
  /\ ~Not(body.user_id) /\ ~Not(body.rating) /\ ~Not(body.comment)
  /\ ~Not(body.reviewable_id) /\ ~Not(body.reviewable_type)
  /\ ~invalidRating(body.rating)
  /\ body.reviewable_type \in ReviewableType

\* a review of the user of the body for the target of the body is stored
AlreadyReviewed(body) ==
  \E i \in 1..Len(reviews) :
     /\ reviews[i].user_id = body.user_id
     /\ reviews[i].reviewable_type = body.reviewable_type
     /\ reviews[i].reviewable_id = body.reviewable_id

\* C9: whatever create, update and delete requests have been served, no two
\* reviews have the same user, target type and target id; and a create for
\* a user and target that already have a review is answered 409 and leaves
\* the reviews as they were
C9_OneReviewPerUserAndTarget ==
  /\ [](\A i, j \in 1..Len(reviews) :
          i # j => \/ reviews[i].user_id # reviews[j].user_id
                   \/ reviews[i].reviewable_type # reviews[j].reviewable_type
                   \/ reviews[i].reviewable_id # reviews[j].reviewable_id)
  /\ [][\A body \in CreateReviewBodies :
          (/\ res'.op = "createReview"
           /\ ValidCreateReview(body)
           /\ AlreadyReviewed(body)
           /\ createReview(body))
          => (res'.status = 409 /\ reviews' = reviews)]_vars

----------------------------------------------------------------------------
(* Category claims *)

\* a request of an administrator
Admin(caller) == caller.token = "valid" /\ caller.role = "ADMIN"

\* a category other than the one with this id has the name
HeldByAnother(name, id) ==
  \E i \in 1..Len(categories) :
     categories[i].id # id /\ categories[i].name = name

\* the create requests of an administrator that pass validation and name a
\* category with a name some category has, and the update requests of an
\* administrator that pass validation and give an existing category a name
\* another category has, are answered status and change no category
DuplicateNameAnswered(status) ==
  /\ \A caller \in CategoryCallers, body \in CreateCategoryBodies :
        (/\ res'.op = "createCategory"
         /\ Admin(caller)
         /\ createCategorySchema(body) = <<>>
         /\ HeldByAnother(createCategoryParsed(body).name, NotAUuid)
         /\ createCategory(caller, body))
        => (res'.status = status /\ categories' = categories)
  /\ \A caller \in CategoryCallers, id \in CategoryIds, body \in UpdateCategoryBodies :
        (/\ res'.op = "updateCategory"
         /\ Admin(caller)
         /\ getCategoryById(id) # 0
         /\ body.name # undefined
         /\ updateCategorySchema(body) = <<>>
         /\ HeldByAnother(updateCategoryParsed(body).name, id)
         /\ updateCategory(caller, id, body))
        => (res'.status = status /\ categories' = categories)

\* no two rows of table categories have the same name
NoTwoCategoriesShareName ==
  \A i, j \in 1..Len(categories) :
     i # j => categories[i].name # categories[j].name

----------------------------------------------------------------------------
(* Order number claims *)

\* C11: any two orders of table orders have different order numbers,
\* whether the second was requested in the instant of the first, later, or
\* when the digits of the clock that make the number have come round again
C11_OrderNumbersDiffer ==
  \A i, j \in 1..Len(orders) :
     i # j => orders[i].order_number # orders[j].order_number

\* a thousand seconds after an order was placed, a create request that
\* generated the number of that order was stopped by the unique index
C11_Witness ==
  /\ res.op = "createOrder"
  /\ res.status = 500
  /\ now >= 1000000
  /\ \E i \in 1..Len(orders) : orders[i].order_number = now % 1000000

----------------------------------------------------------------------------
(* Order amount claims *)

\* the amounts of a row of table orders
Amounts(o) ==
  <<o.subtotal, o.tax_amount, o.shipping_amount, o.total_amount>>

\* what createOrder computes for each of the items arrays
ServerAmounts == [items \in PricedItemLists |-> computeAmounts(items)]

\* the rows createOrder appended to order_items are those of items, priced
\* as a prices them
ItemRowsOf(items, a) ==
  /\ Len(order_items') = Len(order_items) + Len(items)
  /\ \A k \in 1..Len(items) :
       /\ order_items'[Len(order_items) + k].product_id = items[k].product_id
       /\ order_items'[Len(order_items) + k].quantity = items[k].quantity
       /\ order_items'[Len(order_items) + k].unit_price = a.items[k].unit_price
       /\ order_items'[Len(order_items) + k].total_price = a.items[k].total_price

\* C12: the subtotal, tax, shipping and total of an order and the rows of
\* its items are what createOrder computed from the items of the request,
\* whatever amounts the body carried, and no update or cancel request
\* changes them
C12_AmountsFixedAtCreation ==
  [][/\ \A i \in 1..Len(orders) :
          /\ i <= Len(orders')
          /\ orders'[i].id = orders[i].id
          /\ Amounts(orders'[i]) = Amounts(orders[i])
     /\ \A k \in 1..Len(order_items) :
          k <= Len(order_items') /\ order_items'[k] = order_items[k]
     /\ Len(orders') > Len(orders)
          => /\ res'.op = "createOrder"
             /\ \E items \in PricedItemLists :
                  /\ Amounts(orders'[Len(orders')]) = Amounts(ServerAmounts[items])
                  /\ ItemRowsOf(items, ServerAmounts[items])
    ]_vars

\* the placed order was updated and then cancelled, a second order was
\* created, and the placed order has the amounts it was created with
C12_Witness ==
  /\ orders[1].status = "CANCELLED"
  /\ orders[1].shipping_address # null
  /\ Amounts(orders[1]) = Amounts(placedOrder.orders[1])
  /\ Len(orders) = 2

----------------------------------------------------------------------------
(* Order status claims *)

\* the place of a status in PENDING, CONFIRMED, PROCESSING, SHIPPED,
\* DELIVERED; CANCELLED is outside the sequence
StatusRank(status) ==
  CASE status = "PENDING" -> 1
    [] status = "CONFIRMED" -> 2
    [] status = "PROCESSING" -> 3
    [] status = "SHIPPED" -> 4
    [] status = "DELIVERED" -> 5
    [] OTHER -> 0

\* C13: every change of the status of an order moves it forward in PENDING,
\* CONFIRMED, PROCESSING, SHIPPED, DELIVERED or sets it to CANCELLED, and a
\* CANCELLED order keeps that status
C13_StatusAdvancesOrCancels ==
  [][\A i \in 1..Len(orders) :
       (i <= Len(orders') /\ orders'[i].status # orders[i].status)
       => /\ orders[i].status # "CANCELLED"
          /\ \/ orders'[i].status = "CANCELLED"
             \/ StatusRank(orders'[i].status) > StatusRank(orders[i].status)
    ]_vars

----------------------------------------------------------------------------
(* Administrator-only claims *)

\* the request carries a valid token whose role is ADMIN
CarriesAdminToken(caller) == caller.token = "valid" /\ caller.role = "ADMIN"

\* the request was turned away before its handler: 401 or 403, nothing
\* written, the stores as they were
TurnedAway ==
  /\ res'.status \in {401, 403}
  /\ res'.writes = 0
  /\ UNCHANGED <<styles, categories, users>>

\* C14: a request for an operation documented as for the administrator
\* alone (create, update or delete a style or a category, delete a user)
\* that carries no valid ADMIN token is turned away before the handler, and
\* the store is unchanged
C14_AdminOnlyTakesEffectForAdminAlone ==
  [][\A caller \in Callers :
       ~CarriesAdminToken(caller)
       => /\ \A body \in CreateStyleBodies :
               (res'.op = "createStyle" /\ createStyle(caller, body))
               => TurnedAway
          /\ \A id \in StyleIds, body \in UpdateStyleBodies :
               (res'.op = "updateStyle" /\ updateStyle(caller, id, body))
               => TurnedAway
          /\ \A id \in StyleIds :
               (res'.op = "deleteStyle" /\ deleteStyle(caller, id))
               => TurnedAway
          /\ \A body \in CreateCategoryBodies :
               (res'.op = "createCategory" /\ createCategory(caller, body))
               => TurnedAway
          /\ \A id \in {303, 999} :
               (res'.op = "deleteCategory" /\ deleteCategory(caller, id))
               => TurnedAway
          /\ \A id \in UserIds :
               (res'.op = "deleteUser" /\ deleteUser(caller, id))
               => TurnedAway
    ]_vars

----------------------------------------------------------------------------
(* Order ownership claims *)

\* every order in the data of the answer is of this customer
AllOf(customer_id) ==
  \A k \in 1..Len(res'.data) : res'.data[k].customer_id = customer_id

----------------------------------------------------------------------------
(* User data claims *)

\* the object has a password_hash
HasHash(object) == "password_hash" \in DOMAIN object

\* C16: no response of an endpoint that returns user data (list, by id,
\* create, update, register, login, refresh, profile) has a password_hash
\* in its data
C16_NoPasswordHashInResponses ==
  "data" \in DOMAIN res
  => /\ res.op = "getUsers"
          => \A i \in 1..Len(res.data) : ~HasHash(res.data[i])
     /\ res.op \in {"getUserById", "createUser", "updateUser", "getProfile"}
          => ~HasHash(res.data)
     /\ res.op \in {"register", "login", "refreshToken"}
          => /\ ~HasHash(res.data)
             /\ ~HasHash(res.data.user)
             /\ ~HasHash(res.data.token)

\* a login was answered with the data of a user who has a password hash
C16_Witness ==
  /\ res.op = "login"
  /\ res.status = 200
  /\ \E i \in 1..Len(users) :
       users[i].id = res.data.user.id /\ users[i].password_hash = "hash"

----------------------------------------------------------------------------
(* Appointment date claims *)

\* 6 * 30 days, in slots of a day
SixMonths == 180

\* a date-time at least one hour and at most six months after the time of
\* the request, on Monday to Saturday, with an hour of day in [8,18); an
\* hour is a twenty-fourth of a slot
WithinBookingRules(t) ==
  /\ 24 * t >= 24 * now + 1
  /\ t <= now + SixMonths
  /\ getDay(t) \in 1..6
  /\ getHours(t) >= 8 /\ getHours(t) < 18

\* C17: a date-time that a creation or an update of an appointment stores
\* is at least one hour and at most six months after the request, on
\* Monday to Saturday, at an hour of day in [8,18)
C17_AcceptedDatesWithinBookingRules ==
  [][res'.op \in {"createAppointment", "updateAppointment"}
     => \A i \in 1..Len(appointments') :
          (\/ i > Len(appointments)
           \/ appointments'[i].appointment_date # appointments[i].appointment_date)
          => WithinBookingRules(appointments'[i].appointment_date)
    ]_vars

\* C18: an update that sets the status to COMPLETED and carries a new date
\* is rejected and leaves the appointment as it was
C18_CompletedWithNewDateRejected ==
  [][\A id \in AppointmentIds, body \in UpdateAppointmentBodies :
       (/\ res'.op = "updateAppointment"
        /\ body.status = "COMPLETED"
        /\ ~Falsy(body.appointment_date)
        /\ FindAppointmentIndex(id) # 0
        /\ updateAppointment(id, body))
       => res'.status = 400 /\ UNCHANGED appointments
    ]_vars

----------------------------------------------------------------------------
(* Registration claims *)

\* a row of table users has this email, letter case ignored
EmailInStore(email) ==
  \E i \in 1..Len(users) :
     EmailTexts.toLowerCase[EmailIndex(users[i].email)]
       = EmailTexts.toLowerCase[EmailIndex(email)]

\* C19: a well-formed register or createUser request whose email is,
\* letter case ignored, the email of a row of table users is answered 409
\* and adds no row
C19_DuplicateEmailConflict ==
  [][\A body \in CreateUserBodies :
       (/\ res'.op \in {"register", "createUser"}
        /\ createUserSchema(body) = <<>>
        /\ EmailInStore(body.email)
        /\ (register(body) \/ createUser(body)))
       => res'.status = 409 /\ users' = users
    ]_vars

\* the same for the emails of the rows that are active
ActiveDuplicateEmailConflict ==
  [][\A body \in CreateUserBodies :
       (/\ res'.op \in {"register", "createUser"}
        /\ createUserSchema(body) = <<>>
        /\ getUserByEmail(body.email) # 0
        /\ (register(body) \/ createUser(body)))
       => res'.status = 409 /\ users' = users
    ]_vars

----------------------------------------------------------------------------
(* Deletion claims *)

\* the rows are those there were, one of them marked inactive and absent
\* from the listing
MarkedInactiveAndUnlisted(old, new, listing) ==
  /\ Len(new) = Len(old)
  /\ \A i \in 1..Len(old) : new[i].id = old[i].id
  /\ \E i \in 1..Len(old) :
       /\ new[i] # old[i]
       /\ "is_active" \in DOMAIN new[i] /\ ~new[i].is_active
       /\ \A k \in 1..Len(listing) : listing[k].id # new[i].id

\* C20: after a successful delete of a category, user, product or stylist
\* the row is still in the table, marked inactive, and the default listing
\* of the entity does not have it
C20_DeletedRowsKeptAndUnlisted ==
  [][/\ (res'.op = "deleteCategory" /\ res'.status = 200)
          => MarkedInactiveAndUnlisted(categories, categories',
                                       SelectSeq(categories', LAMBDA c : c.is_active))
     /\ (res'.op = "deleteUser" /\ res'.status = 204)
          => MarkedInactiveAndUnlisted(users, users',
                                       SelectSeq(users', LAMBDA u : u.is_active))
     /\ (res'.op = "deleteProduct" /\ res'.status = 204)
          => MarkedInactiveAndUnlisted(products, products', products')
     /\ (res'.op = "deleteStylist" /\ res'.status = 204)
          => MarkedInactiveAndUnlisted(stylists, stylists', stylists')
    ]_vars

\* the same for categories and users alone
DeletedCategoriesAndUsersKeptAndUnlisted ==
  [][/\ (res'.op = "deleteCategory" /\ res'.status = 200)
          => MarkedInactiveAndUnlisted(categories, categories',
                                       SelectSeq(categories', LAMBDA c : c.is_active))
     /\ (res'.op = "deleteUser" /\ res'.status = 204)
          => MarkedInactiveAndUnlisted(users, users',
                                       SelectSeq(users', LAMBDA u : u.is_active))
    ]_vars

----------------------------------------------------------------------------
(* Claims on requests for a deleted entity *)

\* the category with this id was deleted: its row is marked inactive (no
\* other request of the categories marks a row inactive)
DeletedCategory(id) ==
  getCategoryById(id) # 0 /\ ~categories[getCategoryById(id)].is_active

\* C21: once a category has been deleted, an update or a delete that the
\* administrator addresses to its id is answered 404
C21_DeletedIsNotFound ==
  [][\A caller \in CategoryCallers, id \in CategoryIds :
       (CarriesAdminToken(caller) /\ DeletedCategory(id))
       => /\ (res'.op = "deleteCategory" /\ deleteCategory(caller, id))
               => res'.status = 404
          /\ \A body \in UpdateCategoryBodies :
               (/\ res'.op = "updateCategory"
                /\ updateCategorySchema(body) = <<>>
                /\ updateCategory(caller, id, body))
               => res'.status = 404
    ]_vars

----------------------------------------------------------------------------
(* Partial update claims *)

\* the field of the row after the update is the value supplied, or the
\* value it had when none was supplied
Merged(old, new, supplied, field) ==
  new[field] = IF supplied[field] # undefined THEN supplied[field]
               ELSE old[field]

\* the category with this id has the fields of the validated body and is
\* otherwise as it was, as are the other categories
PartialCategoryUpdateMerges(id, body) ==
  /\ Len(categories') = Len(categories)
  /\ \A i \in 1..Len(categories) :
       IF categories[i].id = id
       THEN /\ categories'[i].id = id
            /\ \A field \in {"name", "description"} :
                 Merged(categories[i], categories'[i],
                        updateCategoryParsed(body), field)
            /\ categories'[i].display_order = categories[i].display_order
            /\ categories'[i].is_active = categories[i].is_active
       ELSE categories'[i] = categories[i]

\* the same for the categories alone
PartialCategoryUpdatesMerge ==
  [][\A caller \in CategoryCallers, id \in {301, 303, 999},
        body \in PartialCategoryBodies :
       (/\ res'.op = "updateCategory" /\ res'.status = 200
        /\ updateCategory(caller, id, body))
       => PartialCategoryUpdateMerges(id, body)
    ]_vars

\* C22: an update that is answered 200 gives every field supplied in the
\* body the supplied value and leaves every other field as it was
C22_PartialUpdateMerges ==
  [][/\ \A caller \in Callers, id \in StyleIds, body \in PartialStyleBodies :
          (/\ res'.op = "updateStyle" /\ res'.status = 200
           /\ updateStyle(caller, id, body))
          => /\ Len(styles') = Len(styles)
             /\ \A i \in 1..Len(styles) :
                  IF styles[i].id = id
                  THEN /\ styles'[i].id = id
                       /\ \A field \in {"name", "photo_url", "description",
                                        "category"} :
                            Merged(styles[i], styles'[i], body, field)
                  ELSE styles'[i] = styles[i]
     /\ \A caller \in CategoryCallers, id \in {301, 303, 999},
           body \in PartialCategoryBodies :
          (/\ res'.op = "updateCategory" /\ res'.status = 200
           /\ updateCategory(caller, id, body))
          => PartialCategoryUpdateMerges(id, body)
    ]_vars

\* C23: the entity an update has produced is the entity the same update
\* produces when it is sent again: whatever the handler would store on the
\* same request in the state after the update is the entity stored there
C23_ResubmittedUpdateChangesNothing ==
  [][/\ \A id \in {101, 999}, body \in UpdateAppointmentBodiesWithNotes :
          (/\ res'.op = "updateAppointment" /\ res'.status = 200
           /\ updateAppointment(id, body))
          => (mergedAppointment(appointments[FindAppointmentIndex(id)], body))'
               = appointments'[FindAppointmentIndex(id)]
     /\ \A id \in {201, 999}, body \in ResubmitReviewBodies :
          (/\ res'.op = "updateReview" /\ res'.status = 200
           /\ updateReview(id, body))
          => (mergedReview(reviews[FindReviewIndex(id)], body))'
               = reviews'[FindReviewIndex(id)]
     /\ \A caller \in Administrators, id \in {301, 999},
           body \in PartialCategoryBodies :
          (/\ res'.op = "updateCategory" /\ res'.status = 200
           /\ updateCategory(caller, id, body))
          => /\ (updateCategoryData(id, updateCategoryParsed(body)))'.categories
                  = categories'
             /\ ~(updateCategoryData(id, updateCategoryParsed(body)))'.threw
    ]_vars

\* an appointment has taken the notes and the status of an update, and a
\* category its new name
C23_Witness ==
  /\ \E i \in 1..Len(appointments) :
       /\ appointments[i].notes = "Llega tarde"
       /\ appointments[i].status = "NO_SHOW"
  /\ \E i \in 1..Len(categories) : categories[i].name = "Festivas"

----------------------------------------------------------------------------
(* Claims on reading what was created *)

\* the amounts in the answer of createOrder for each of the items arrays
ResponseAmounts == [items \in PricedItemLists |-> responseAmounts(items)]

\* C24: the order that a read by the id of a created order selects has the
\* id, customer, number, statuses, addresses and amounts of the order in the
\* answer to the creation
C24_ReadEqualsCreationResponse ==
  [][\A items \in PricedItemLists :
       (/\ res'.op = "createOrder" /\ res'.status = 201
        /\ ItemRowsOf(items, ServerAmounts[items]))
       => LET read == orders'[Len(orders')]
              response == ResponseAmounts[items]
          IN /\ read.id = uuidv4
             /\ read.order_number = generateOrderNumber
             /\ read.status = "PENDING" /\ read.payment_status = "PENDING"
             /\ NumberOfDecimal(read.subtotal) = response.subtotal
             /\ NumberOfDecimal(read.tax_amount) = response.tax_amount
             /\ NumberOfDecimal(read.shipping_amount) = response.shipping_amount
             /\ NumberOfDecimal(read.total_amount) = response.total_amount
    ]_vars

----------------------------------------------------------------------------
(* Claims on identifiers *)

\* C25: the id a newly created entity receives is the id of no entity
\* created before it, deleted or not
C25_IdsNeverReused ==
  [][(res'.op = "createBraid" /\ res'.status = 201)
       => /\ braids'[Len(braids')].id \notin braidIds
          /\ \A i \in 1..Len(braids) : braids'[Len(braids')].id # braids[i].id
    ]_vars

\* as long as the braids handlers run, no two stored braids have one id
BraidIdsDistinct ==
  \A i, j \in 1..Len(braids) : braids[i].id = braids[j].id => i = j

----------------------------------------------------------------------------
(* Claims on requests handled at the same time *)

\* both requests have been answered, and they asked for one stylist at one
\* instant
BothAnsweredForOneSlot ==
  /\ \A r \in InFlight : tasks[r].pc = "answered"
  /\ tasks[1].body.stylist_id = tasks[2].body.stylist_id
  /\ NewDate(tasks[1].body.appointment_date)
       = NewDate(tasks[2].body.appointment_date)

\* the appointments with status SCHEDULED of a stylist at an instant
ScheduledAt(stylist_id, t) ==
  {i \in 1..Len(appointments) :
     /\ appointments[i].stylist_id = stylist_id
     /\ appointments[i].appointment_date = t
     /\ appointments[i].status = "SCHEDULED"}

UsersWithEmail(email) ==
  {i \in 1..Len(users) :
     utf8mb4_unicode_ci(users[i].email) = utf8mb4_unicode_ci(email)}

\* both registrations asked for one email, both passed the check of
\* getUserByEmail and went on to the INSERT, and both have been answered
BothPassedEmailCheck ==
  /\ \A r \in InFlight :
       tasks[r].pc = "answered" /\ tasks[r].status \in {201, 500}
  /\ emailTransform(tasks[1].body.email) = emailTransform(tasks[2].body.email)

----------------------------------------------------------------------------
(* Claims on the number of responses *)

\* C28: to a request that updates or cancels an order the handler sends one
\* response and does not try to send another
C28_OneResponse ==
  res.op \in {"updateOrder", "cancelOrder"}
    => res.sends = 1 /\ ~res.threw

----------------------------------------------------------------------------
(* Claims on roles *)

\* C29: as long as every request comes from a caller without the token of
\* an administrator, the only users with role ADMIN are the seeded ones and
\* no token with role ADMIN is issued
C29_NoAdministratorIsMade ==
  /\ \A i \in 1..Len(users) :
       users[i].role = "ADMIN"
         => \E s \in 1..Len(seedUsers) : seedUsers[s].id = users[i].id
  /\ (res.op = "register" /\ "data" \in DOMAIN res)
       => res.data.token.role # "ADMIN"

----------------------------------------------------------------------------
(* Claims on the items of an order *)

\* the sum of the total prices of the rows, in hundredths
RECURSIVE SumOfTotalPrices(_)
SumOfTotalPrices(rows) ==
  IF rows = <<>> THEN 0
  ELSE rows[1].total_price + SumOfTotalPrices(Tail(rows))

\* C30: every stored order has items stored with it, each with total price
\* quantity x unit price, and its subtotal is the sum of their total prices
C30_OrdersStoredWithTheirItems ==
  \A i \in 1..Len(orders) :
     LET rows == getOrderItems(orders[i].id) IN
     /\ rows # <<>>
     /\ \A k \in 1..Len(rows) :
          rows[k].total_price = rows[k].quantity * rows[k].unit_price
     /\ orders[i].subtotal = SumOfTotalPrices(rows)

====
